---------------------------- MODULE Spec2Model ----------------------------
(***************************************************************************)
(* State-machine model of the DDEV PHPMD extension for VS Code: the        *)
(* environment validator, the remote executor, the result translator, the  *)
(* two analysis services (PhpmdService and BasePhpToolService), and the    *)
(* extension's service lifecycle.                                          *)
(*                                                                         *)
(* Texts (error messages, user messages) are sequences of word tokens, so  *)
(* that String.prototype.includes is a real search for a contiguous        *)
(* sub-sequence.  A diagnostic collection that has been disposed rejects   *)
(* every later call (VS Code throws "illegal state - object is disposed"). *)
(***************************************************************************)
EXTENDS Integers, Sequences, FiniteSets, TLC

VARIABLES
    settings,       \* the stored configuration of section "ddev-phpmd"
    env,            \* the container environment: marker file and ddev state
    services,       \* every service object constructed so far, in order
    phpmdService,   \* extension.ts global: index into services, 0 = undefined
    serviceClass,   \* which service class the extension instantiates
    activeEditor,   \* vscode.window.activeTextEditor: a document or "none"
    extListenerPos, \* how many services subscribed before the extension did
    burst,          \* history: the debounce burst currently open
    log,            \* history: API calls made by the most recent event handler
    last,           \* history: the most recent event
    call,           \* pure-function harness: [fn, args..., out]
    extensionVersion,     \* which version of extension.ts is running
    currentFileHasIssues, \* extension.ts global
    ddevServiceStatus,    \* part_002 global; stays 'disabled' in extension.ts
    statusBarItem,        \* statusBarItem.text
    statusUpdated         \* history: the most recent event ran updateStatusBar

extVars == <<extensionVersion, currentFileHasIssues, ddevServiceStatus,
             statusBarItem, statusUpdated>>

vars == <<settings, env, services, phpmdService, serviceClass, activeEditor,
          extListenerPos, burst, log, last, call, extVars>>

---------------------------------------------------------------------------
(* Texts                                                                   *)

\* String.prototype.includes: phrase occurs in text as a contiguous run.
Includes(text, phrase) ==
    \E i \in 0..(Len(text) - Len(phrase)) :
        SubSeq(text, i + 1, i + Len(phrase)) = phrase

\* The paragraph separator "\n\n" is the token PARA.
PARA == "\n\n"

\* text.split('\n\n')[0] and text.substring(0, text.indexOf('\n\n')).
RECURSIVE FirstParagraph(_)
FirstParagraph(text) ==
    IF text = <<>> \/ Head(text) = PARA THEN <<>>
    ELSE <<Head(text)>> \o FirstParagraph(Tail(text))

\* String.prototype.toUpperCase on the tool names in use.
ToUpperCase(toolName) ==
    CASE toolName = "phpmd" -> "PHPMD"
      [] toolName = "phpcs" -> "PHPCS"
      [] OTHER -> toolName

---------------------------------------------------------------------------
(* The container environment                                               *)

\* What a failed `ddev exec ...` reports, by the reason it failed: the
\* message and stderr of the error execSync throws, and whether the
\* container itself is up.  "testmsg" is the error of the validator's test.
Failure(id) ==
    CASE id = "stopped" ->
           [message |-> <<"Command", "failed:", "Project", "is", "not", "currently", "running">>,
            stderr  |-> <<"Project", "is", "not", "currently", "running">>, up |-> FALSE]
      [] id = "start" ->
           [message |-> <<"Command", "failed:", "Try", "ddev", "start">>,
            stderr  |-> <<"Try", "ddev", "start">>, up |-> FALSE]
      [] id = "testmsg" ->
           [message |-> <<"DDEV", "project", "not", "currently", "running">>,
            stderr  |-> <<"not", "currently", "running">>, up |-> FALSE]
      [] id = "missing" ->
           [message |-> <<"Command", "failed:", "sh:", "phpmd:", "not", "found">>,
            stderr  |-> <<"sh:", "phpmd:", "not", "found">>, up |-> TRUE]
      [] id = "cmd" ->
           [message |-> <<"Command", "failed:", "bash:", "command", "not", "found">>,
            stderr  |-> <<"bash:", "command", "not", "found">>, up |-> TRUE]
      [] id = "both" ->
           [message |-> <<"ddev:", "command", "not", "found", PARA, "Try", "ddev", "start">>,
            stderr  |-> <<"ddev:", "command", "not", "found">>, up |-> FALSE]
      [] OTHER ->
           [message |-> <<"Command", "failed:", "permission", "denied", PARA, "at", "docker">>,
            stderr  |-> <<"permission", "denied">>, up |-> TRUE]

StoppedIds == {"stopped", "start", "testmsg"}
MissingIds == {"missing", "cmd"}
FailureIds == StoppedIds \cup MissingIds \cup {"both", "other"}
DdevStates == {"ready"} \cup FailureIds
AllEnvs    == [marker : BOOLEAN, ddev : DdevStates]

\* execSync of a `ddev exec <tool> --version` in environment e: it returns,
\* or throws an error carrying message and stderr.
VersionAttempt(e) ==
    IF e.ddev = "ready"
    THEN [ok |-> TRUE, message |-> <<>>, stderr |-> <<>>]
    ELSE [ok |-> FALSE, message |-> Failure(e.ddev).message,
          stderr |-> Failure(e.ddev).stderr]

---------------------------------------------------------------------------
(* shared/utils/ddev-utils.ts                                              *)

\* `${toolName}: not found`
ToolNotFoundPhrase(toolName) ==
    <<(CASE toolName = "phpmd" -> "phpmd:" [] OTHER -> "tool:"), "not", "found">>

getComposerPackageName(toolName) ==
    CASE toolName = "phpmd" -> "phpmd/phpmd"
      [] toolName = "phpcs" -> "squizlabs/php_codesniffer"
      [] toolName = "phpstan" -> "phpstan/phpstan"
      [] OTHER -> "tool/tool"

\* The mutant of hasDdevProject that reports a project wherever it looks.
hasDdevProject_AlwaysTrue(e) == TRUE

\* test -f .ddev/config.yaml && echo "exists": throws when the file is absent.
hasDdevProject(e) == e.marker

\* The error text the catch block of validateDdevTool classifies: it runs
\* the version command a second time (environment e2) and keeps
\* execError.message || execError.stderr || ''; '' when that run succeeds.
SecondAttemptMessage(e2) ==
    LET a == VersionAttempt(e2) IN
    IF a.ok THEN <<>>
    ELSE IF a.message # <<>> THEN a.message ELSE a.stderr

\* The mutant of ClassifyError that tests for the missing tool first.
ClassifyError_ToolFirst(toolName, errorMessage) ==
    IF Includes(errorMessage, ToolNotFoundPhrase(toolName))
       \/ Includes(errorMessage, <<"command", "not", "found">>)
    THEN "tool-not-found"
    ELSE IF Includes(errorMessage, <<"Project", "is", "not", "currently", "running">>)
            \/ Includes(errorMessage, <<"ddev", "start">>)
    THEN "ddev-not-running"
    ELSE "unknown"

\* The cascade of lines 138-175: which errorType a captured text gets.
ClassifyError(toolName, errorMessage) ==
    IF Includes(errorMessage, <<"Project", "is", "not", "currently", "running">>)
       \/ Includes(errorMessage, <<"ddev", "start">>)
    THEN "ddev-not-running"
    ELSE IF Includes(errorMessage, ToolNotFoundPhrase(toolName))
            \/ Includes(errorMessage, <<"command", "not", "found">>)
    THEN "tool-not-found"
    ELSE "unknown"

ValidResult ==
    [isValid |-> TRUE, errorType |-> "undefined", errorMessage |-> <<>>,
     userMessage |-> <<>>, userDetail |-> <<>>, attempts |-> 1]

\* validateDdevTool(toolName, workspacePath).  e1 is the environment the
\* marker test and the first version attempt see, e2 the one the second
\* attempt sees.  attempts counts the `ddev exec` invocations made.
validateDdevTool(toolName, e1, e2) ==
    IF ~hasDdevProject(e1) THEN
        [isValid |-> FALSE, errorType |-> "no-ddev-project", errorMessage |-> <<>>,
         userMessage |-> <<"No", "DDEV", "project", "found">>,
         userDetail |-> <<"This", "extension", "requires", "a", "DDEV", "project.">>,
         attempts |-> 0]
    ELSE IF VersionAttempt(e1).ok THEN ValidResult
    ELSE
        LET errorMessage == SecondAttemptMessage(e2)
            errorType    == ClassifyError(toolName, errorMessage)
        IN  CASE errorType = "ddev-not-running" ->
                   [isValid |-> FALSE, errorType |-> errorType,
                    errorMessage |-> errorMessage,
                    userMessage |-> <<"DDEV", "is", "not", "running">>,
                    userDetail |-> <<"This", "extension", "requires", "DDEV", "to", "be",
                                     "running.", PARA, "ddev", "start">>,
                    attempts |-> 2]
              [] errorType = "tool-not-found" ->
                   [isValid |-> FALSE, errorType |-> errorType,
                    errorMessage |-> errorMessage,
                    userMessage |-> <<ToUpperCase(toolName), "is", "not", "installed">>,
                    userDetail |-> <<"ddev", "exec", "composer", "require", "--dev",
                                     getComposerPackageName(toolName)>>,
                    attempts |-> 2]
              [] OTHER ->
                   [isValid |-> FALSE, errorType |-> "unknown",
                    errorMessage |-> errorMessage,
                    userMessage |-> <<"Unable", "to", "verify", ToUpperCase(toolName),
                                      "installation">>,
                    userDetail |-> <<"Error:">> \o FirstParagraph(errorMessage),
                    attempts |-> 2]

---------------------------------------------------------------------------
(* Documents and tool output                                               *)

PhpDocs == {"a.php", "b.php"}
Docs    == PhpDocs \cup {"notes.txt"}
languageId(d) == IF d \in PhpDocs THEN "php" ELSE "plaintext"

\* vscode.DiagnosticSeverity
SeverityError       == 0
SeverityWarning     == 1
SeverityInformation == 2

\* Number.MAX_VALUE, the end column of every range
NumberMaxValue == 999999

NoUrl == "undefined"

\* The two violations of SAMPLE_PHPMD_OUTPUT in the test suite.
SampleViolation1 ==
    [beginLine |-> 10, endLine |-> 10, beginColumn |-> 1, endColumn |-> 20,
     description |-> "The method has 15 parameters.",
     rule |-> "ExcessiveParameterList", ruleSet |-> "codesize", priority |-> 3,
     externalInfoUrl |-> "https://phpmd.org/rules/codesize.html#excessiveparameterlist"]

SampleViolation2 ==
    [beginLine |-> 20, endLine |-> 20, beginColumn |-> 1, endColumn |-> 20,
     description |-> "Avoid using short variable names.",
     rule |-> "ShortVariable", ruleSet |-> "naming", priority |-> 1,
     externalInfoUrl |-> "https://phpmd.org/rules/naming.html#shortvariable"]

SampleResult ==
    [files |-> << [file |-> "test.php",
                   violations |-> <<SampleViolation1, SampleViolation2>>] >>]

EmptyResult == [files |-> <<>>]

\* What the tool can write to stdout: nothing, text that is not JSON, or a
\* PHPMD result as JSON.
StdoutEmpty   == [kind |-> "empty",   result |-> EmptyResult]
StdoutGarbage == [kind |-> "garbage", result |-> EmptyResult]
StdoutJson(r) == [kind |-> "json",    result |-> r]
\* JSON that parses to something else than a PHPMD result: the value null,
\* and an object without a files array such as {}.
StdoutNull    == [kind |-> "null",    result |-> EmptyResult]
StdoutNoFiles == [kind |-> "nofiles", result |-> EmptyResult]

Stdouts == {StdoutEmpty, StdoutGarbage, StdoutJson(SampleResult), StdoutJson(EmptyResult)}

\* One run of the tool in a ready container: its exit code and stdout.
\* PHPMD exits 2 when it found violations.
ExitCodes == {0, 1, 2}
AllRuns == [exit : ExitCodes, stdout : Stdouts]
\* The runs of the state machine: no violations, violations reported with
\* exit 0 and with exit 2, and failures of the tool with and without output.
Runs == {[exit |-> 0, stdout |-> StdoutJson(EmptyResult)],
         [exit |-> 0, stdout |-> StdoutJson(SampleResult)],
         [exit |-> 2, stdout |-> StdoutJson(SampleResult)],
         [exit |-> 0, stdout |-> StdoutEmpty],
         [exit |-> 1, stdout |-> StdoutEmpty],
         [exit |-> 1, stdout |-> StdoutGarbage]}

---------------------------------------------------------------------------
(* utils/ddev-utils.ts: DiagnosticUtils                                    *)

\* The mutant of getSeverity whose default case answers Error.
getSeverity_DefaultError(priority) ==
    CASE priority = 1 -> SeverityError
      [] priority \in {2, 3} -> SeverityWarning
      [] priority \in {4, 5} -> SeverityInformation
      [] OTHER -> SeverityError

\* The mutant of shouldReportSeverity whose 'warning' case compares with ===.
shouldReportSeverity_WarningOnly(severity, minSeverity) ==
    CASE minSeverity = "error" -> severity = SeverityError
      [] minSeverity = "warning" -> severity = SeverityWarning
      [] minSeverity = "info" -> TRUE
      [] OTHER -> TRUE

getSeverity(priority) ==
    CASE priority = 1 -> SeverityError
      [] priority \in {2, 3} -> SeverityWarning
      [] priority \in {4, 5} -> SeverityInformation
      [] OTHER -> SeverityWarning

shouldReportSeverity(severity, minSeverity) ==
    CASE minSeverity = "error" -> severity = SeverityError
      [] minSeverity = "warning" -> severity <= SeverityWarning
      [] minSeverity = "info" -> TRUE
      [] OTHER -> TRUE

\* An externalInfoUrl that vscode.Uri.parse rejects (its scheme has a blank),
\* and the empty string, which `if (violation.externalInfoUrl)` takes as absent.
UrlIllegal == "see docs: rule"
UrlEmpty   == ""

\* new vscode.Position(line, character) throws on a negative argument.
PositionThrows(line, character) == line < 0 \/ character < 0

\* `if (violation.externalInfoUrl)`: undefined and '' are falsy.
HasExternalInfoUrl(violation) ==
    violation.externalInfoUrl # NoUrl /\ violation.externalInfoUrl # UrlEmpty

\* createDiagnostic throws when the Position or the Uri cannot be built.
createDiagnosticThrows(violation) ==
    \/ PositionThrows(violation.beginLine - 1, 0)
    \/ PositionThrows(violation.beginLine - 1, NumberMaxValue)
    \/ (HasExternalInfoUrl(violation) /\ violation.externalInfoUrl = UrlIllegal)

\* The mutant of createDiagnostic that spans the tool's line and column range.
createDiagnostic_ToolRange(violation) ==
    [range    |-> [start |-> [line |-> violation.beginLine - 1,
                              character |-> violation.beginColumn - 1],
                   end   |-> [line |-> violation.endLine - 1,
                              character |-> violation.endColumn - 1]],
     message  |-> <<violation.description, violation.rule>>,
     severity |-> getSeverity(violation.priority),
     source   |-> "phpmd",
     code     |-> IF HasExternalInfoUrl(violation)
                  THEN [pair |-> TRUE, value |-> violation.rule,
                        target |-> violation.externalInfoUrl]
                  ELSE [pair |-> FALSE, value |-> violation.rule, target |-> NoUrl]]

\* The mutant of createDiagnostic that never pairs the rule with its URL.
createDiagnostic_BareCode(violation) ==
    [range    |-> [start |-> [line |-> violation.beginLine - 1, character |-> 0],
                   end   |-> [line |-> violation.beginLine - 1,
                              character |-> NumberMaxValue]],
     message  |-> <<violation.description, violation.rule>>,
     severity |-> getSeverity(violation.priority),
     source   |-> "phpmd",
     code     |-> [pair |-> FALSE, value |-> violation.rule, target |-> NoUrl]]

\* DiagnosticUtils.createDiagnostic, when it does not throw: the whole line
\* beginLine - 1, the message, the severity, the source tag and the code.
createDiagnostic(violation) ==
    LET lineNum == violation.beginLine - 1 IN
    [range    |-> [start |-> [line |-> lineNum, character |-> 0],
                   end   |-> [line |-> lineNum, character |-> NumberMaxValue]],
     message  |-> <<violation.description, violation.rule>>,
     severity |-> getSeverity(violation.priority),
     source   |-> "phpmd",
     code     |-> IF HasExternalInfoUrl(violation)
                  THEN [pair |-> TRUE, value |-> violation.rule,
                        target |-> violation.externalInfoUrl]
                  ELSE [pair |-> FALSE, value |-> violation.rule, target |-> NoUrl]]

---------------------------------------------------------------------------
(* Remote execution                                                        *)

\* The mutant of isDdevProject that never looks.
isDdevProject_AlwaysTrue(e) == TRUE

\* DdevUtils.isDdevProject of utils/ddev-utils.ts, the check PhpmdService
\* makes: the marker test, then `ddev status`, which fails when the
\* container is down.
isDdevProject(e) ==
    /\ e.marker
    /\ (e.ddev = "ready" \/ Failure(e.ddev).up)

\* execSync(`ddev exec ${command}`) in environment e: the tool runs only in a
\* ready container; otherwise ddev fails and writes nothing to stdout.
ExecSync(e, run) ==
    IF e.marker /\ e.ddev = "ready"
    THEN [exit |-> run.exit, stdout |-> run.stdout, stderr |-> <<>>]
    ELSE [exit |-> 1, stdout |-> StdoutEmpty,
          stderr |-> IF e.ddev = "ready" THEN <<"no", "project", "found">>
                     ELSE Failure(e.ddev).stderr]

\* The call execDdev makes: execSync(`ddev exec ${command}`, {cwd:
\* workspacePath, encoding: 'utf-8'}).
execSyncCall(commandText, workspacePath) ==
    [line |-> <<"ddev", " ", "exec", " ">> \o commandText, cwd |-> workspacePath]

\* The mutant of execDdev that treats every non-zero exit as a failure.
execDdev_ThrowOnNonZero(command, e, run) ==
    LET r == ExecSync(e, run) IN
    [threw |-> r.exit # 0, exit |-> r.exit, stdout |-> r.stdout,
     stderr |-> r.stderr, command |-> command]

\* DdevUtils.execDdev: stdout of a run that succeeded, stdout of a run that
\* failed but wrote some, otherwise the error is thrown again.
execDdev(command, e, run) ==
    LET r == ExecSync(e, run) IN
    IF r.exit = 0
    THEN [threw |-> FALSE, exit |-> r.exit, stdout |-> r.stdout,
          stderr |-> r.stderr, command |-> command]
    ELSE IF r.stdout.kind # "empty"
    THEN [threw |-> FALSE, exit |-> r.exit, stdout |-> r.stdout,
          stderr |-> r.stderr, command |-> command]
    ELSE [threw |-> TRUE, exit |-> r.exit, stdout |-> r.stdout,
          stderr |-> r.stderr, command |-> command]

---------------------------------------------------------------------------
(* Configuration                                                           *)

\* models/configuration.ts: DEFAULT_CONFIG
DEFAULT_CONFIG ==
    [enable |-> TRUE, validateOn |-> "save",
     rulesets |-> <<"cleancode", "codesize", "controversial", "design", "naming", "unusedcode">>,
     minSeverity |-> "warning", configPath |-> ""]

\* The values each setting takes in the model.
SettingValues(key) ==
    CASE key = "enable" -> BOOLEAN
      [] key = "validateOn" -> {"save", "type"}
      [] key = "minSeverity" -> {"error", "warning"}
      [] key = "rulesets" -> {DEFAULT_CONFIG.rulesets}
      [] key = "configPath" -> {""}
      [] OTHER -> {}

SettingKeys == {"enable", "validateOn", "minSeverity"}

AllSettings ==
    [enable : SettingValues("enable"), validateOn : SettingValues("validateOn"),
     rulesets : SettingValues("rulesets"), minSeverity : SettingValues("minSeverity"),
     configPath : SettingValues("configPath")]

\* ConfigurationService.getConfig(): one read of the five stored settings.
getConfig(stored) ==
    [enable |-> stored.enable, validateOn |-> stored.validateOn,
     rulesets |-> stored.rulesets, minSeverity |-> stored.minSeverity,
     configPath |-> stored.configPath]

\* BasePhpToolService keeps no snapshot: it reads the settings on each use.
NoSnapshot == DEFAULT_CONFIG

---------------------------------------------------------------------------
(* The record of what a handler did                                        *)

\* One API call made by service i (0: the extension itself) for document d;
\* ok is FALSE when the call threw.
Op(i, name, d, ok, arg) == [svc |-> i, op |-> name, doc |-> d, ok |-> ok, arg |-> arg]

NoArg == "-"

HasOp(ops, name) == \E k \in 1..Len(ops) : ops[k].op = name
OpsOf(ops, name) == {k \in 1..Len(ops) : ops[k].op = name}

---------------------------------------------------------------------------
(* services/phpmd-service.ts                                               *)

\* The text of a path or a name as the pieces a shell tells apart: blanks,
\* quotes and semicolons on their own, everything else in runs.
Pieces(text) ==
    CASE text = "my file.php"      -> <<"my", " ", "file.php">>
      [] text = "it's.php"         -> <<"it", "'", "s.php">>
      [] text = "rules/my set.xml" -> <<"rules/my", " ", "set.xml">>
      [] text = ""                 -> <<>>
      [] OTHER                     -> <<text>>

\* vscode.workspace.asRelativePath: a path inside the workspace folder loses
\* the folder, any other path is returned as it is.
asRelativePath(path) ==
    CASE path = "/workspace/phpmd.xml" -> "phpmd.xml"
      [] path = "/workspace/a.php"     -> "a.php"
      [] OTHER                         -> path

\* rulesets.join(',')
RECURSIVE JoinComma(_)
JoinComma(rulesets) ==
    IF rulesets = <<>> THEN <<>>
    ELSE IF Len(rulesets) = 1 THEN Pieces(rulesets[1])
    ELSE Pieces(rulesets[1]) \o <<",">> \o JoinComma(Tail(rulesets))

\* The mutant of buildPhpmdCommand that passes the rulesets along with the
\* custom ruleset file.
buildPhpmdCommand_Both(relativePath, config) ==
    IF config.configPath # ""
    THEN [tool |-> "phpmd", file |-> relativePath, format |-> "json",
          form |-> "configPath", path |-> asRelativePath(config.configPath),
          rulesets |-> config.rulesets]
    ELSE [tool |-> "phpmd", file |-> relativePath, format |-> "json",
          form |-> "rulesets", path |-> "", rulesets |-> config.rulesets]

\* buildPhpmdCommand: the custom ruleset file when one is set, otherwise the
\* rulesets joined by commas.
buildPhpmdCommand(relativePath, config) ==
    IF config.configPath # ""
    THEN [tool |-> "phpmd", file |-> relativePath, format |-> "json",
          form |-> "configPath", path |-> asRelativePath(config.configPath),
          rulesets |-> <<>>]
    ELSE [tool |-> "phpmd", file |-> relativePath, format |-> "json",
          form |-> "rulesets", path |-> "", rulesets |-> config.rulesets]

\* The string the template literals of buildPhpmdCommand give:
\* `phpmd "${relativePath}" json "${configPath}"` and
\* `phpmd "${relativePath}" json ${rulesets}`.
CommandText(cmd) ==
    <<cmd.tool, " ", "\"">> \o Pieces(cmd.file) \o <<"\"", " ", cmd.format, " ">>
    \o (IF cmd.path # "" THEN <<"\"">> \o Pieces(cmd.path) \o <<"\"">> ELSE <<>>)
    \o (IF cmd.path # "" /\ cmd.rulesets # <<>> THEN <<" ">> ELSE <<>>)
    \o JoinComma(cmd.rulesets)

\* The mutant of the loop that pushes every violation, whatever its severity.
RECURSIVE TranslateViolations_NoFilter(_, _)
TranslateViolations_NoFilter(violations, minSeverity) ==
    IF violations = <<>> THEN <<>>
    ELSE <<createDiagnostic(Head(violations))>>
         \o TranslateViolations_NoFilter(Tail(violations), minSeverity)

\* The loop of processPhpmdOutput over the violations of one file.
RECURSIVE TranslateViolations(_, _)
TranslateViolations(violations, minSeverity) ==
    IF violations = <<>> THEN <<>>
    ELSE LET violation == Head(violations)
             severity  == getSeverity(violation.priority)
         IN  (IF shouldReportSeverity(severity, minSeverity)
              THEN <<createDiagnostic(violation)>> ELSE <<>>)
             \o TranslateViolations(Tail(violations), minSeverity)

\* The mutant of the outer loop that puts each file's diagnostics in front of
\* those already collected.
RECURSIVE TranslateFiles_LastFirst(_, _)
TranslateFiles_LastFirst(files, minSeverity) ==
    IF files = <<>> THEN <<>>
    ELSE TranslateFiles_LastFirst(Tail(files), minSeverity)
         \o TranslateViolations(Head(files).violations, minSeverity)

\* The mutant of the outer loop that translates the first entry of
\* result.files only.
TranslateFiles_FirstOnly(files, minSeverity) ==
    IF files = <<>> THEN <<>>
    ELSE TranslateViolations(Head(files).violations, minSeverity)

\* The loop of processPhpmdOutput over result.files.
RECURSIVE TranslateFiles(_, _)
TranslateFiles(files, minSeverity) ==
    IF files = <<>> THEN <<>>
    ELSE TranslateViolations(Head(files).violations, minSeverity)
         \o TranslateFiles(Tail(files), minSeverity)

\* The loops throw when createDiagnostic throws for a violation that passed
\* the severity filter.
TranslationThrows(files, minSeverity) ==
    \E f \in 1..Len(files) : \E k \in 1..Len(files[f].violations) :
        /\ shouldReportSeverity(getSeverity(files[f].violations[k].priority), minSeverity)
        /\ createDiagnosticThrows(files[f].violations[k])

\* What the try block of processPhpmdOutput throws on: text JSON.parse
\* rejects, the JSON value null (result.files of null), or a violation no
\* diagnostic can be built from.
ProcessingThrows(output, minSeverity) ==
    \/ output.kind \in {"empty", "garbage", "null"}
    \/ (output.kind = "json" /\ TranslationThrows(output.result.files, minSeverity))

\* The mutant of processPhpmdOutput that sets the collection even when
\* nothing was translated.
processPhpmdOutput_SetAlways(i, svc, output, d, minSeverity) ==
    IF ProcessingThrows(output, minSeverity)
    THEN [svc |-> svc,
          ops |-> <<Op(i, "message", d, TRUE, "Error processing PHPMD output")>>]
    ELSE [svc |-> [svc EXCEPT !.diags[d] = TranslateFiles(output.result.files, minSeverity)],
          ops |-> <<Op(i, "set", d, TRUE,
                       TranslateFiles(output.result.files, minSeverity))>>]

\* The cap of the excerpt: originalOutput.substring(0, 200).
ShortenedOutputCap == 200

\* originalOutput.indexOf('\n\n') on a text given character by character:
\* the zero-based position of the first of two newlines in a row, or -1.
IndexOfDoubleNewline(text) ==
    IF \E k \in 1..(Len(text) - 1) : text[k] = "\n" /\ text[k + 1] = "\n"
    THEN (CHOOSE k \in 1..(Len(text) - 1) :
             /\ text[k] = "\n" /\ text[k + 1] = "\n"
             /\ \A j \in 1..(k - 1) : ~(text[j] = "\n" /\ text[j + 1] = "\n")) - 1
    ELSE -1

\* text.substring(0, end)
Substring0(text, end) ==
    SubSeq(text, 1, IF end > Len(text) THEN Len(text) ELSE end)

\* shortenedOutput of the catch block of processPhpmdOutput.
shortenedOutput(originalOutput) ==
    IF IndexOfDoubleNewline(originalOutput) # -1
    THEN Substring0(originalOutput, IndexOfDoubleNewline(originalOutput))
    ELSE Substring0(originalOutput, ShortenedOutputCap)

\* The detail of the error message: the excerpt and the '...' that follows
\* it when something was cut; no excerpt at all for an empty output.
ErrorDetail(originalOutput) ==
    IF originalOutput = <<>>
    THEN [hasExcerpt |-> FALSE, excerpt |-> <<>>, ellipsis |-> FALSE]
    ELSE [hasExcerpt |-> TRUE, excerpt |-> shortenedOutput(originalOutput),
          ellipsis |-> Len(originalOutput) > Len(shortenedOutput(originalOutput))]

\* The mutant of processPhpmdOutput whose catch block only logs to the
\* console.
processPhpmdOutput_SilentCatch(i, svc, output, d, minSeverity) ==
    IF ProcessingThrows(output, minSeverity)
    THEN [svc |-> svc, ops |-> <<>>]
    ELSE IF Len(TranslateFiles(output.result.files, minSeverity)) > 0
    THEN [svc |-> [svc EXCEPT !.diags[d] = TranslateFiles(output.result.files, minSeverity)],
          ops |-> <<Op(i, "set", d, TRUE,
                       TranslateFiles(output.result.files, minSeverity))>>]
    ELSE [svc |-> svc, ops |-> <<>>]

\* processPhpmdOutput(output, document) of service i: JSON.parse, translate,
\* set when there is something to set; whatever the try block throws is
\* reported. JSON without a files array (kind "nofiles") translates to
\* nothing.
processPhpmdOutput(i, svc, output, d, minSeverity) ==
    IF ProcessingThrows(output, minSeverity)
    THEN [svc |-> svc,
          ops |-> <<Op(i, "message", d, TRUE, "Error processing PHPMD output")>>]
    ELSE LET diagnostics == TranslateFiles(output.result.files, minSeverity) IN
         IF Len(diagnostics) > 0
         THEN [svc |-> [svc EXCEPT !.diags[d] = diagnostics],
               ops |-> <<Op(i, "set", d, TRUE, diagnostics)>>]
         ELSE [svc |-> svc, ops |-> <<>>]

\* The message of the catch block of analyzeFile: stderr when the error
\* carries one, otherwise the error's message.
ExecErrorMessage(out) ==
    IF out.stderr # <<>> THEN "PHPMD Error" ELSE "Error running PHPMD"

\* The mutant of analyzeFile that neither deletes the document's diagnostics
\* nor replaces them: what it publishes is added to what was there.
PhpmdService_analyzeFile_Merge(i, svc, d, e, run) ==
    IF ~svc.config.enable \/ languageId(d) # "php"
    THEN [svc |-> svc, ops |-> <<>>]
    ELSE IF ~isDdevProject(e)
    THEN [svc |-> svc,
          ops |-> <<Op(i, "isDdevProject", d, TRUE, FALSE),
                    Op(i, "message", d, TRUE, "DDEV environment not detected")>>]
    ELSE IF execDdev(buildPhpmdCommand(d, svc.config), e, run).threw
    THEN [svc |-> svc,
          ops |-> <<Op(i, "exec", d, FALSE,
                       execDdev(buildPhpmdCommand(d, svc.config), e, run)),
                    Op(i, "message", d, TRUE, "Error running PHPMD")>>]
    ELSE [svc |-> [svc EXCEPT !.diags[d] =
                      @ \o processPhpmdOutput(i, [svc EXCEPT !.diags[d] = <<>>],
                               execDdev(buildPhpmdCommand(d, svc.config), e, run).stdout,
                               d, svc.config.minSeverity).svc.diags[d]],
          ops |-> <<Op(i, "exec", d, TRUE,
                       execDdev(buildPhpmdCommand(d, svc.config), e, run))>>]

\* PhpmdService.analyzeFile(document) of service i in environment e, the
\* tool producing `run` if it gets to run.
PhpmdService_analyzeFile(i, svc, d, e, run) ==
    IF ~svc.config.enable \/ languageId(d) # "php"
    THEN [svc |-> svc, ops |-> <<>>]
    ELSE IF svc.disposed
    THEN [svc |-> svc, ops |-> <<Op(i, "delete", d, FALSE, NoArg)>>]
    ELSE
      LET cleared == [svc EXCEPT !.diags[d] = <<>>]
          del     == Op(i, "delete", d, TRUE, NoArg)
          chk     == Op(i, "isDdevProject", d, TRUE, isDdevProject(e))
      IN  IF ~isDdevProject(e)
          THEN [svc |-> cleared,
                ops |-> <<del, chk,
                          Op(i, "message", d, TRUE, "DDEV environment not detected")>>]
          ELSE
            LET out == execDdev(buildPhpmdCommand(d, svc.config), e, run)
                ex  == Op(i, "exec", d, ~out.threw, out)
            IN  IF out.threw
                THEN [svc |-> cleared,
                      ops |-> <<del, chk, ex,
                                Op(i, "message", d, TRUE, ExecErrorMessage(out))>>]
                ELSE LET p == processPhpmdOutput(i, cleared, out.stdout, d,
                                                 svc.config.minSeverity)
                     IN  [svc |-> p.svc, ops |-> <<del, chk, ex>> \o p.ops]

\* The service object the constructor builds: a fresh diagnostic
\* collection, the configuration read once, no timer.
NewService(stored) ==
    [config |-> IF serviceClass = "PhpmdService" THEN getConfig(stored) ELSE NoSnapshot,
     armed |-> <<>>, documentValidation |-> FALSE,
     diags |-> [d \in Docs |-> <<>>], disposed |-> FALSE]

\* clearTimeout(this.documentValidation): the timer the handle names is the
\* last one armed; clearing a timer that already ran changes nothing.
ClearHandle(svc) ==
    IF svc.documentValidation
    THEN [svc EXCEPT !.armed = SubSeq(svc.armed, 1, Len(svc.armed) - 1),
                     !.documentValidation = FALSE]
    ELSE svc

\* PhpmdService.onConfigurationChanged: any change of the section replaces
\* the snapshot.
PhpmdService_onConfigurationChanged(i, svc, stored) ==
    [svc |-> [svc EXCEPT !.config = getConfig(stored)], ops |-> <<>>]

\* PhpmdService.onDocumentSave
PhpmdService_onDocumentSave(i, svc, d, e, run) ==
    IF languageId(d) = "php" /\ svc.config.enable
    THEN PhpmdService_analyzeFile(i, svc, d, e, run)
    ELSE [svc |-> svc, ops |-> <<>>]

\* The mutant of ArmTimer that arms the new timer without clearing the
\* previous one.
ArmTimer_NoClear(i, svc, d) ==
    [svc |-> [svc EXCEPT !.armed = Append(svc.armed, d), !.documentValidation = TRUE],
     ops |-> <<Op(i, "setTimeout", d, TRUE, NoArg)>>]

\* The debounce of onDocumentChange: clear the pending timer, arm a new one.
ArmTimer(i, svc, d) ==
    LET c == ClearHandle(svc) IN
    [svc |-> [c EXCEPT !.armed = Append(c.armed, d), !.documentValidation = TRUE],
     ops |-> (IF svc.documentValidation
              THEN <<Op(i, "clearTimeout", d, TRUE, NoArg)>> ELSE <<>>)
             \o <<Op(i, "setTimeout", d, TRUE, NoArg)>>]

\* The mutant of PhpmdService.onDocumentChange that debounces in every mode.
PhpmdService_onDocumentChange_AnyMode(i, svc, d) ==
    IF languageId(d) # "php" \/ ~svc.config.enable
    THEN [svc |-> svc, ops |-> <<>>]
    ELSE ArmTimer(i, svc, d)

\* PhpmdService.onDocumentChange
PhpmdService_onDocumentChange(i, svc, d) ==
    IF languageId(d) # "php" \/ ~svc.config.enable \/ svc.config.validateOn # "type"
    THEN [svc |-> svc, ops |-> <<>>]
    ELSE ArmTimer(i, svc, d)

\* The mutant of dispose that leaves the debounce timer armed.
dispose_KeepTimer(i, svc) ==
    [svc |-> [svc EXCEPT !.diags = [d \in Docs |-> <<>>], !.disposed = TRUE],
     ops |-> <<Op(i, "dispose", "none", TRUE, NoArg)>>]

\* The mutant of dispose after which the collection still accepts calls.
dispose_CollectionUsable(i, svc) ==
    [svc |-> [ClearHandle(svc) EXCEPT !.diags = [d \in Docs |-> <<>>]],
     ops |-> <<Op(i, "dispose", "none", TRUE, NoArg)>>
             \o (IF svc.documentValidation
                 THEN <<Op(i, "clearTimeout", "none", TRUE, NoArg)>> ELSE <<>>)]

\* dispose() of either class: dispose the collection, which drops every
\* diagnostic it holds, and clear the debounce timer.
dispose(i, svc) ==
    [svc |-> [ClearHandle(svc) EXCEPT !.diags = [d \in Docs |-> <<>>],
                                      !.disposed = TRUE],
     ops |-> <<Op(i, "dispose", "none", TRUE, NoArg)>>
             \o (IF svc.documentValidation
                 THEN <<Op(i, "clearTimeout", "none", TRUE, NoArg)>> ELSE <<>>)]

---------------------------------------------------------------------------
(* shared/services/base-php-tool-service.ts                                *)

\* BasePhpToolService.onConfigurationChanged: clear the collection when the
\* tool is now disabled; clear() throws on a disposed collection.
Base_onConfigurationChanged(i, svc, stored) ==
    IF ~getConfig(stored).enable
    THEN IF svc.disposed
         THEN [svc |-> svc, ops |-> <<Op(i, "clear", "none", FALSE, NoArg)>>]
         ELSE [svc |-> [svc EXCEPT !.diags = [d \in Docs |-> <<>>]],
               ops |-> <<Op(i, "clear", "none", TRUE, NoArg)>>]
    ELSE [svc |-> svc, ops |-> <<>>]

\* BasePhpToolService.analyzeFile: the configuration is read afresh, the
\* document's diagnostics are deleted, the environment is validated, and
\* only then is the tool command built and run.
Base_analyzeFile(i, svc, d, stored, e, e2, run) ==
    LET config == getConfig(stored) IN
    IF ~config.enable \/ languageId(d) # "php"
    THEN [svc |-> svc, ops |-> <<>>]
    ELSE IF svc.disposed
    THEN [svc |-> svc, ops |-> <<Op(i, "delete", d, FALSE, NoArg)>>]
    ELSE
      LET cleared == [svc EXCEPT !.diags[d] = <<>>]
          del     == Op(i, "delete", d, TRUE, NoArg)
          validationResult == validateDdevTool("phpmd", e, e2)
          val     == Op(i, "validate", d, TRUE, validationResult)
      IN  IF ~validationResult.isValid
          THEN [svc |-> cleared,
                ops |-> <<del, val>> \o
                        (IF validationResult.userMessage # <<>>
                         THEN <<Op(i, "message", d, TRUE, validationResult.userMessage)>>
                         ELSE <<>>)]
          ELSE
            LET out == execDdev(buildPhpmdCommand(d, config), e, run)
                ex  == Op(i, "exec", d, ~out.threw, out)
            IN  IF out.threw
                THEN [svc |-> cleared,
                      ops |-> <<del, val, ex,
                                Op(i, "message", d, TRUE, ExecErrorMessage(out))>>]
                ELSE LET p == processPhpmdOutput(i, cleared, out.stdout, d,
                                                 config.minSeverity)
                     IN  [svc |-> p.svc, ops |-> <<del, val, ex>> \o p.ops]

\* BasePhpToolService.onDocumentSave
Base_onDocumentSave(i, svc, d, stored, e, e2, run) ==
    LET config == getConfig(stored) IN
    IF languageId(d) = "php" /\ config.enable /\ config.validateOn = "save"
    THEN Base_analyzeFile(i, svc, d, stored, e, e2, run)
    ELSE [svc |-> svc, ops |-> <<>>]

\* BasePhpToolService.onDocumentChange
Base_onDocumentChange(i, svc, d, stored) ==
    LET config == getConfig(stored) IN
    IF languageId(d) # "php" \/ ~config.enable \/ config.validateOn # "type"
    THEN [svc |-> svc, ops |-> <<>>]
    ELSE ArmTimer(i, svc, d)

---------------------------------------------------------------------------
(* The handlers of whichever class the extension instantiates              *)

onConfigurationChanged(i, svc, stored) ==
    IF serviceClass = "PhpmdService"
    THEN PhpmdService_onConfigurationChanged(i, svc, stored)
    ELSE Base_onConfigurationChanged(i, svc, stored)

onDocumentSave(i, svc, d, stored, e, e2, run) ==
    IF serviceClass = "PhpmdService"
    THEN PhpmdService_onDocumentSave(i, svc, d, e, run)
    ELSE Base_onDocumentSave(i, svc, d, stored, e, e2, run)

onDocumentChange(i, svc, d, stored) ==
    IF serviceClass = "PhpmdService"
    THEN PhpmdService_onDocumentChange(i, svc, d)
    ELSE Base_onDocumentChange(i, svc, d, stored)

analyzeFile(i, svc, d, stored, e, e2, run) ==
    IF serviceClass = "PhpmdService"
    THEN PhpmdService_analyzeFile(i, svc, d, e, run)
    ELSE Base_analyzeFile(i, svc, d, stored, e, e2, run)

\* The section a changed setting belongs to: the five settings of the
\* extension are those of 'ddev-phpmd'.
ConfigSection(key) == IF key \in DOMAIN DEFAULT_CONFIG THEN "ddev-phpmd" ELSE "editor"

\* event.affectsConfiguration(section) for an event that changed `key`; the
\* section is given by its dotted parts.
affectsConfiguration(key, section) ==
    /\ ConfigSection(key) = section[1]
    /\ Len(section) > 1 => key = section[2]

\* The mutant of the listener that takes over the enable flag only and leaves
\* the rest of the snapshot as it was.
onConfigurationChangeEvent_EnableOnly(i, svc, stored, key) ==
    [svc |-> IF serviceClass = "PhpmdService"
             THEN [svc EXCEPT !.config.enable = stored.enable]
             ELSE onConfigurationChanged(i, svc, stored).svc,
     ops |-> onConfigurationChanged(i, svc, stored).ops]

\* The configuration listener of service i for an event that changed `key`:
\* `if (event.affectsConfiguration('ddev-phpmd'))`.
onConfigurationChangeEvent(i, svc, stored, key) ==
    IF affectsConfiguration(key, <<"ddev-phpmd">>)
    THEN onConfigurationChanged(i, svc, stored)
    ELSE [svc |-> svc, ops |-> <<>>]

---------------------------------------------------------------------------
(* extension.ts                                                            *)

\* The mutant of initializeService that forgets to dispose the service when
\* the tool is disabled.
initializeService_NoDispose(svcs, live, stored, e, e2) ==
    IF getConfig(stored).enable /\ live = 0 /\ validateDdevTool("phpmd", e, e2).isValid
    THEN [services |-> Append(svcs, NewService(stored)), phpmdService |-> Len(svcs) + 1,
          ops |-> <<Op(0, "validate", "none", TRUE, validateDdevTool("phpmd", e, e2)),
                    Op(0, "create", "none", TRUE, NoArg)>>]
    ELSE [services |-> svcs, phpmdService |-> live, ops |-> <<>>]

\* The mutant of initializeService that does not test whether a service
\* exists before it creates one.
initializeService_Recreate(svcs, live, stored, e, e2) ==
    IF getConfig(stored).enable
    THEN IF ~validateDdevTool("phpmd", e, e2).isValid
         THEN [services |-> svcs, phpmdService |-> live,
               ops |-> <<Op(0, "validate", "none", TRUE, validateDdevTool("phpmd", e, e2))>>]
         ELSE [services |-> Append(svcs, NewService(stored)),
               phpmdService |-> Len(svcs) + 1,
               ops |-> <<Op(0, "validate", "none", TRUE, validateDdevTool("phpmd", e, e2)),
                         Op(0, "create", "none", TRUE, NoArg)>>]
    ELSE IF live # 0
         THEN [services |-> [svcs EXCEPT ![live] = dispose(live, svcs[live]).svc],
               phpmdService |-> 0, ops |-> dispose(live, svcs[live]).ops]
         ELSE [services |-> svcs, phpmdService |-> 0, ops |-> <<>>]

\* initializeService(context, workspaceFolder): create the service when the
\* tool is enabled, none exists and validation passes; dispose it when the
\* tool is disabled.
initializeService(svcs, live, stored, e, e2) ==
    IF getConfig(stored).enable
    THEN IF live = 0
         THEN LET validationResult == validateDdevTool("phpmd", e, e2)
                  val == Op(0, "validate", "none", TRUE, validationResult)
              IN  IF ~validationResult.isValid
                  THEN [services |-> svcs, phpmdService |-> 0,
                        ops |-> <<val>> \o
                                (IF validationResult.userMessage # <<>>
                                    /\ validationResult.userDetail # <<>>
                                 THEN <<Op(0, "message", "none", TRUE,
                                           validationResult.userMessage)>>
                                 ELSE <<>>)]
                  ELSE [services |-> Append(svcs, NewService(stored)),
                        phpmdService |-> Len(svcs) + 1,
                        ops |-> <<val, Op(0, "create", "none", TRUE, NoArg)>>]
         ELSE [services |-> svcs, phpmdService |-> live, ops |-> <<>>]
    ELSE IF live # 0
         THEN LET r == dispose(live, svcs[live]) IN
              [services |-> [svcs EXCEPT ![live] = r.svc], phpmdService |-> 0,
               ops |-> r.ops]
         ELSE [services |-> svcs, phpmdService |-> 0, ops |-> <<>>]

---------------------------------------------------------------------------
(* extension.ts and its later version in part_002: the command and the     *)
(* status bar                                                              *)

\* The two versions of extension.ts among the sources.
ExtensionVersions == {"extension.ts", "part_002"}

\* statusBarItem.text in the four branches of updateStatusBar.
TextDisabled     == "$(circle-slash) PHPMD"
TextNotAvailable == "$(warning) PHPMD"
TextHasIssues    == "$(error) PHPMD"
TextReady        == "$(check) PHPMD"

\* The module-level variables the status functions read and write;
\* updated tells whether updateStatusBar ran.
StatusVars(hasIssues, status, text, updated) ==
    [currentFileHasIssues |-> hasIssues, ddevServiceStatus |-> status,
     text |-> text, updated |-> updated]

\* showWarningMessage with the buttons showDdevError offers.
showDdevError(validationResult) ==
    LET message == IF validationResult.userMessage # <<>>
                   THEN validationResult.userMessage
                   ELSE <<"DDEV", "configuration", "issue">>
        buttons == (IF Includes(message, <<"appears", "to", "be", "stopped">>)
                       \/ Includes(message, <<"not", "currently", "running">>)
                    THEN <<"Start DDEV">> ELSE <<>>)
                   \o <<"Disable for this project">>
    IN  Op(0, "warning", "none", TRUE, [message |-> message, buttons |-> buttons])

\* updateStatusBar() of extension.ts: three displays, chosen by the enable
\* setting and currentFileHasIssues.
updateStatusBar(st, stored) ==
    [st EXCEPT !.text = IF ~getConfig(stored).enable THEN TextDisabled
                        ELSE IF st.currentFileHasIssues THEN TextHasIssues
                        ELSE TextReady,
               !.updated = TRUE]

\* updateDdevServiceStatus() of part_002: validates the environment again.
updateDdevServiceStatus(st, stored, e, e2) ==
    [st EXCEPT !.ddevServiceStatus =
        IF ~getConfig(stored).enable THEN "disabled"
        ELSE IF ~validateDdevTool("phpmd", e, e2).isValid THEN "not-available"
        ELSE IF st.currentFileHasIssues THEN "has-issues"
        ELSE "ready"]

\* updateStatusBar() of part_002: a switch on ddevServiceStatus.
New_updateStatusBar(st) ==
    [st EXCEPT !.text = CASE st.ddevServiceStatus = "disabled" -> TextDisabled
                          [] st.ddevServiceStatus = "not-available" -> TextNotAvailable
                          [] st.ddevServiceStatus = "has-issues" -> TextHasIssues
                          [] OTHER -> TextReady,
               !.updated = TRUE]

\* vscode.languages.getDiagnostics(uri) filtered by source 'phpmd': the
\* entries of every collection the services created.
PhpmdDiagnostics(svcs, d) ==
    {i \in 1..Len(svcs) : svcs[i].diags[d] # <<>>}

\* The end of checkCurrentFileStatus in either version: the status bar is
\* updated from the flag just set.
UpdateFromFlag(version, flagged, stored, e, e2) ==
    IF version = "extension.ts"
    THEN updateStatusBar(flagged, stored)
    ELSE New_updateStatusBar(updateDdevServiceStatus(flagged, stored, e, e2))

\* checkCurrentFileStatus() of either version, with `editor` the active
\* document.
checkCurrentFileStatus(version, st, editor, svcs, live, stored, e, e2) ==
    UpdateFromFlag(version,
                   [st EXCEPT !.currentFileHasIssues =
                       IF editor = "none" \/ live = 0 THEN FALSE
                       ELSE IF languageId(editor) # "php" THEN FALSE
                       ELSE PhpmdDiagnostics(svcs, editor) # {}],
                   stored, e, e2)

\* The documents whose diagnostics the calls `ops` changed, svcs being the
\* services before the calls: delete and set name their document, clear
\* and dispose every document the collection held an entry for.
ChangedUris(ops, svcs) ==
    {ops[k].doc : k \in {j \in 1..Len(ops) : ops[j].op \in {"delete", "set"} /\ ops[j].ok}}
    \cup {d \in Docs : \E k \in 1..Len(ops) :
              /\ ops[k].op \in {"clear", "dispose"} /\ ops[k].ok
              /\ svcs[ops[k].svc].diags[d] # <<>>}

\* The mutant of the onDidChangeDiagnostics listener that never reacts.
onDidChangeDiagnostics_Deaf(version, st, uris, editor, svcs, live, stored, e, e2) == st

\* The onDidChangeDiagnostics listener of activate(): recompute when the
\* event names the active document.
onDidChangeDiagnostics(version, st, uris, editor, svcs, live, stored, e, e2) ==
    IF editor # "none" /\ editor \in uris
    THEN checkCurrentFileStatus(version, st, editor, svcs, live, stored, e, e2)
    ELSE st

\* analyzeCurrentFile() of a service of either class.
Service_analyzeCurrentFile(i, svc, editor, stored, e, e2, run) ==
    IF editor # "none"
    THEN analyzeFile(i, svc, editor, stored, e, e2, run)
    ELSE [svc |-> svc, ops |-> <<>>]

WarnDisabled ==
    Op(0, "warning", "none", TRUE, "PHPMD is disabled. Enable it first to analyze files.")
WarnNotAvailable ==
    Op(0, "warning", "none", TRUE,
       "PHPMD service is not available. Please check your DDEV configuration.")

\* The body of initializeService of part_002 up to its status update,
\* validationResult being what validateDdevTool answers when it is called.
New_initializeServiceBody(svcs, live, stored, validationResult, silent) ==
    IF getConfig(stored).enable
    THEN IF live = 0
         THEN IF ~validationResult.isValid
              THEN [services |-> svcs, phpmdService |-> 0,
                    ops |-> <<Op(0, "validate", "none", TRUE, validationResult)>>
                            \o (IF ~silent THEN <<showDdevError(validationResult)>>
                                ELSE <<>>),
                    ok |-> FALSE]
              ELSE [services |-> Append(svcs, NewService(stored)),
                    phpmdService |-> Len(svcs) + 1,
                    ops |-> <<Op(0, "validate", "none", TRUE, validationResult),
                              Op(0, "create", "none", TRUE, NoArg)>>,
                    ok |-> TRUE]
         ELSE [services |-> svcs, phpmdService |-> live, ops |-> <<>>, ok |-> TRUE]
    ELSE IF live # 0
         THEN [services |-> [svcs EXCEPT ![live] = dispose(live, svcs[live]).svc],
               phpmdService |-> 0, ops |-> dispose(live, svcs[live]).ops, ok |-> TRUE]
         ELSE [services |-> svcs, phpmdService |-> 0, ops |-> <<>>, ok |-> TRUE]

\* The result r of an initializeService with the status st it leaves.
WithStatus(r, st, ok) ==
    [services |-> r.services, phpmdService |-> r.phpmdService, ops |-> r.ops,
     st |-> st, ok |-> ok]

\* initializeService(context, workspaceFolder, silent) of part_002: as in
\* extension.ts, but a failure is shown by showDdevError unless silent, and
\* every path ends with updateDdevServiceStatus and updateStatusBar.
New_initializeService(svcs, live, st, stored, e, e2, silent) ==
    WithStatus(New_initializeServiceBody(svcs, live, stored,
                                         validateDdevTool("phpmd", e, e2), silent),
               New_updateStatusBar(updateDdevServiceStatus(st, stored, e, e2)),
               ~(getConfig(stored).enable /\ live = 0
                 /\ ~validateDdevTool("phpmd", e, e2).isValid))

\* initializeService of the version in use, with the status it leaves; ok
\* is what it returns.
InitializeServiceOf(version, svcs, live, st, stored, e, e2, silent) ==
    IF version = "extension.ts"
    THEN WithStatus(initializeService(svcs, live, stored, e, e2), st,
                    ~(getConfig(stored).enable /\ live = 0
                      /\ ~validateDdevTool("phpmd", e, e2).isValid))
    ELSE New_initializeService(svcs, live, st, stored, e, e2, silent)

\* Service `live` replaced by what its handler r left of it.
Replaced(svcs, live, r) ==
    [services |-> [svcs EXCEPT ![live] = r.svc], ops |-> r.ops]

\* The live service analyses the active document; the other services are
\* not called.
AnalyzeWithLive(svcs, live, editor, stored, e, e2, run) ==
    Replaced(svcs, live,
             Service_analyzeCurrentFile(live, svcs[live], editor, stored, e, e2, run))

\* What the command leaves when its analysis a followed the calls `ops`.
Analysed(a, live, ops, st) ==
    [services |-> a.services, phpmdService |-> live, ops |-> ops \o a.ops, st |-> st]

\* What the command leaves when it ended after the calls `ops`.
Ended(svcs, live, ops, st) ==
    [services |-> svcs, phpmdService |-> live, ops |-> ops, st |-> st]

\* analyzeCurrentFile() of extension.ts, the handler of the command.
analyzeCurrentFile(svcs, live, st, editor, stored, e, e2, run) ==
    IF ~getConfig(stored).enable THEN Ended(svcs, live, <<WarnDisabled>>, st)
    ELSE IF live = 0 THEN Ended(svcs, live, <<WarnNotAvailable>>, st)
    ELSE Analysed(AnalyzeWithLive(svcs, live, editor, stored, e, e2, run),
                  live, <<>>, st)

\* The end of analyzeCurrentFile() of part_002 when it had to initialise
\* the service: r is what initializeService left, val the validation made
\* before it.
AnalyzeAfterInit(r, val, editor, stored, e, e2, run) ==
    IF ~r.ok \/ r.phpmdService = 0
    THEN Ended(r.services, r.phpmdService, <<val>> \o r.ops, r.st)
    ELSE Analysed(AnalyzeWithLive(r.services, r.phpmdService, editor, stored,
                                  e, e2, run),
                  r.phpmdService, <<val>> \o r.ops, r.st)

\* The branch of analyzeCurrentFile() of part_002 without a service:
\* validate, and only when that passes initialise the service silently.
Reinitialize(svcs, st, editor, stored, e, e2, run, validationResult) ==
    IF ~validationResult.isValid
    THEN Ended(svcs, 0, <<Op(0, "validate", "none", TRUE, validationResult),
                          showDdevError(validationResult)>>, st)
    ELSE AnalyzeAfterInit(New_initializeService(svcs, 0, st, stored, e, e2, TRUE),
                          Op(0, "validate", "none", TRUE, validationResult),
                          editor, stored, e, e2, run)

\* The mutant of analyzeCurrentFile() of part_002 that gives up when there
\* is no service.
New_analyzeCurrentFile_NoReinit(svcs, live, st, editor, stored, e, e2, run) ==
    IF ~getConfig(stored).enable THEN Ended(svcs, live, <<WarnDisabled>>, st)
    ELSE IF live = 0 THEN Ended(svcs, live, <<WarnNotAvailable>>, st)
    ELSE Analysed(AnalyzeWithLive(svcs, live, editor, stored, e, e2, run),
                  live, <<>>, st)

\* analyzeCurrentFile() of part_002.
New_analyzeCurrentFile(svcs, live, st, editor, stored, e, e2, run) ==
    IF ~getConfig(stored).enable THEN Ended(svcs, live, <<WarnDisabled>>, st)
    ELSE IF live = 0
    THEN Reinitialize(svcs, st, editor, stored, e, e2, run,
                      validateDdevTool("phpmd", e, e2))
    ELSE Analysed(AnalyzeWithLive(svcs, live, editor, stored, e, e2, run),
                  live, <<>>, st)

\* The command handler of the version in use.
AnalyzeCurrentFileOf(version, svcs, live, st, editor, stored, e, e2, run) ==
    IF version = "extension.ts"
    THEN analyzeCurrentFile(svcs, live, st, editor, stored, e, e2, run)
    ELSE New_analyzeCurrentFile(svcs, live, st, editor, stored, e, e2, run)

\* No call of the validator harness is under way.
NoCall == [fn |-> "none"]

---------------------------------------------------------------------------
(* The state machine                                                       *)

\* How many service objects a run may construct.
MaxServices == 2
\* How many change events one debounce burst may hold.
MaxBurst == 2

\* The environments of the state machine: no project, a ready container, a
\* stopped one and one without the tool.
Envs == {e \in [marker : BOOLEAN, ddev : {"ready", "start", "missing"}] :
            e.marker \/ e.ddev = "ready"}

\* The environments a second `--version` attempt may meet: the container can
\* change between the two invocations.  Only a failed first attempt is
\* followed by a second one.
SecondEnvs(e) == IF e.marker /\ ~VersionAttempt(e).ok THEN Envs ELSE {e}

\* Only the analysis of BasePhpToolService validates with validateDdevTool.
AnalysisEnvs(e) == IF serviceClass = "BasePhpToolService" THEN SecondEnvs(e) ELSE {e}

\* The tool runs only in a ready container; elsewhere its run is not observed.
RunsIn(e) == IF e.marker /\ e.ddev = "ready" THEN Runs
             ELSE {[exit |-> 1, stdout |-> StdoutEmpty]}

\* The burst of change events that armed the live service's timers: how
\* many events it holds and how many analyses its timers have started.
NoBurst == [edits |-> 0, fires |-> 0]

\* The event handled last: its kind, its document, the service it concerns
\* and whether that service held diagnostics for the document before.
Event(kind, d, i, hadDiags) ==
    [kind |-> kind, doc |-> d, svc |-> i, hadDiags |-> hadDiags]

\* The ops of handler results rs[lo], ..., rs[hi], in that order.
RECURSIVE OpsOfRange(_, _, _)
OpsOfRange(rs, lo, hi) ==
    IF lo > hi THEN <<>> ELSE rs[lo].ops \o OpsOfRange(rs, lo + 1, hi)

HadDiags(svcs, i, d) == i # 0 /\ d \in Docs /\ svcs[i].diags[d] # <<>>

\* The status variables as the handlers of an event find them.
St == StatusVars(currentFileHasIssues, ddevServiceStatus, statusBarItem, FALSE)

\* The status variables before activate() ran.
InitialSt == StatusVars(FALSE, "disabled", "", FALSE)

\* checkCurrentFileStatus() run on what initializeService left.
CheckedAfter(version, r, editor, stored, e, e2) ==
    [services |-> r.services, phpmdService |-> r.phpmdService, ops |-> r.ops,
     st |-> checkCurrentFileStatus(version, r.st, editor, r.services,
                                   r.phpmdService, stored, e, e2)]

\* activate() with `editor` active: extension.ts updates the status bar,
\* both versions initialise the service and end with checkCurrentFileStatus.
Activate(version, editor, stored, e, e2) ==
    CheckedAfter(version,
                 InitializeServiceOf(version, <<>>, 0,
                                     IF version = "extension.ts"
                                     THEN updateStatusBar(InitialSt, stored)
                                     ELSE InitialSt,
                                     stored, e, e2, FALSE),
                 editor, stored, e, e2)

\* The state activate() leaves: the service is initialised before the
\* extension subscribes to configuration changes.
Activated(version, editor) ==
    /\ extensionVersion = version
    /\ activeEditor = editor
    /\ burst = NoBurst
    /\ call = NoCall
    /\ \E e2 \in SecondEnvs(env) :
         \E r \in {Activate(version, editor, settings, env, e2)} :
         /\ services = r.services
         /\ phpmdService = r.phpmdService
         /\ extListenerPos = Len(r.services)
         /\ log = r.ops
         /\ currentFileHasIssues = r.st.currentFileHasIssues
         /\ ddevServiceStatus = r.st.ddevServiceStatus
         /\ statusBarItem = r.st.text
         /\ statusUpdated = r.st.updated
    /\ last = Event("activate", "none", 0, FALSE)

\* The state machine of the services: extension.ts with no editor active.
Init ==
    /\ serviceClass \in {"PhpmdService", "BasePhpToolService"}
    /\ settings \in AllSettings
    /\ env \in Envs
    /\ Activated("extension.ts", "none")

\* What the onDidChangeDiagnostics listener leaves of status st after the
\* calls `ops` of an event changed diagnostics.
AfterDiagnostics(st, ops, svcsBefore, e2) ==
    onDidChangeDiagnostics(extensionVersion, st, ChangedUris(ops, svcsBefore),
                           activeEditor', services', phpmdService', settings',
                           env', e2)

SetStatus(st) ==
    /\ currentFileHasIssues' = st.currentFileHasIssues
    /\ ddevServiceStatus' = st.ddevServiceStatus
    /\ statusBarItem' = st.text
    /\ statusUpdated' = st.updated

\* A setting of the section changes and onDidChangeConfiguration is
\* delivered to every subscriber, in the order they subscribed.
ConfigEvent(key, stored, kind, head, tail) ==
    LET n == Len(services) IN
    \E e2 \in SecondEnvs(env) :
    LET before == [i \in 1..n |-> onConfigurationChangeEvent(i, services[i], stored, key)]
        svA    == [i \in 1..n |-> IF i <= extListenerPos
                                  THEN before[i].svc ELSE services[i]]
        ext    == IF affectsConfiguration(key, <<"ddev-phpmd", "enable">>)
                  THEN InitializeServiceOf(
                           extensionVersion, svA, phpmdService,
                           IF extensionVersion = "extension.ts"
                           THEN updateStatusBar(St, stored) ELSE St,
                           stored, env, e2, FALSE)
                  ELSE [services |-> svA, phpmdService |-> phpmdService,
                        ops |-> <<>>, st |-> St]
        after  == [i \in 1..n |-> onConfigurationChangeEvent(i, ext.services[i], stored, key)]
        svC    == [i \in 1..Len(ext.services) |->
                     IF i > extListenerPos /\ i <= n
                     THEN after[i].svc ELSE ext.services[i]]
    IN  /\ Len(ext.services) <= MaxServices
        /\ settings' = stored
        /\ services' = svC
        /\ phpmdService' = ext.phpmdService
        /\ log' = head \o OpsOfRange(before, 1, extListenerPos) \o ext.ops
                  \o OpsOfRange(after, extListenerPos + 1, n) \o tail
        /\ burst' = IF ext.phpmdService = phpmdService THEN burst ELSE NoBurst
        /\ last' = Event(kind, key, phpmdService,
                         \E d \in Docs : HadDiags(services, phpmdService, d))
        /\ UNCHANGED <<env, serviceClass, activeEditor, extListenerPos, call,
                       extensionVersion>>
        /\ SetStatus(AfterDiagnostics(ext.st, log', services, e2))

\* The user changes one setting: one of the extension, with a new value to
\* store, or one of another section, which the listeners are told of as well.
ConfigChange(key, value) ==
    /\ call = NoCall
    /\ \E own \in {key \in DOMAIN settings} :
          /\ own => value # settings[key]
          /\ ConfigEvent(key,
                         IF own THEN [settings EXCEPT ![key] = value] ELSE settings,
                         IF own THEN "config" ELSE "config-other", <<>>, <<>>)

\* The mutant of the toggle command that writes back the value it read.
ToggleValue_Same(currentValue) == currentValue

\* `!currentValue` of the toggle command.
ToggleValue(currentValue) == ~currentValue

\* The information message of the three commands.
CommandMessage(value) ==
    IF value THEN "DDEV PHPMD enabled." ELSE "DDEV PHPMD disabled."

\* The commands 'ddev-phpmd.enable', 'ddev-phpmd.disable', 'ddev-phpmd.toggle':
\* config.update('enable', value, Workspace) awaited, then the information
\* message; toggle reads the flag first.  The configuration event is fired
\* when the stored value changes.
CommandKinds == {"enable", "disable", "toggle"}

CommandValue(kind, currentValue) ==
    CASE kind = "enable" -> TRUE
      [] kind = "disable" -> FALSE
      [] kind = "toggle" -> ToggleValue(currentValue)

SettingCommand(kind) ==
    /\ call = NoCall
    /\ \E value \in {CommandValue(kind, settings.enable)} :
       \E head \in {IF kind = "toggle"
                    THEN <<Op(0, "get", "none", TRUE, settings.enable)>>
                    ELSE <<>>} :
          IF value # settings.enable
          THEN ConfigEvent("enable", [settings EXCEPT !.enable = value], kind,
                           head \o <<Op(0, "update", "none", TRUE, value)>>,
                           <<Op(0, "info", "none", TRUE, CommandMessage(value))>>)
          ELSE /\ log' = head \o <<Op(0, "update", "none", TRUE, value),
                                   Op(0, "info", "none", TRUE, CommandMessage(value))>>
               /\ last' = Event(kind, "enable", phpmdService,
                                \E d \in Docs : HadDiags(services, phpmdService, d))
               /\ UNCHANGED <<settings, env, services, phpmdService, serviceClass,
                              activeEditor, extListenerPos, burst, call, extensionVersion>>
               /\ SetStatus(St)

\* onDidSaveTextDocument for document d, delivered to every service.
Save(d) ==
    /\ call = NoCall
    /\ \E e2 \in AnalysisEnvs(env), run \in RunsIn(env) :
         LET rs == [i \in 1..Len(services) |->
                      onDocumentSave(i, services[i], d, settings, env, e2, run)]
         IN  /\ services' = [i \in 1..Len(services) |-> rs[i].svc]
             /\ log' = OpsOfRange(rs, 1, Len(services))
             /\ UNCHANGED <<settings, env, phpmdService, serviceClass, activeEditor,
                            extListenerPos, burst, call, extensionVersion>>
             /\ SetStatus(AfterDiagnostics(St, log', services, e2))
    /\ last' = Event("save", d, phpmdService, HadDiags(services, phpmdService, d))

\* onDidChangeTextDocument for document d, delivered to every service.
Change(d) ==
    /\ call = NoCall
    /\ burst.fires > 0 \/ burst.edits < MaxBurst
    /\ LET rs == [i \in 1..Len(services) |->
                    onDocumentChange(i, services[i], d, settings)]
           armedNow == phpmdService # 0 /\ HasOp(rs[phpmdService].ops, "setTimeout")
       IN  /\ services' = [i \in 1..Len(services) |-> rs[i].svc]
           /\ log' = OpsOfRange(rs, 1, Len(services))
           /\ burst' = IF ~armedNow THEN burst
                       ELSE IF burst.fires = 0
                       THEN [burst EXCEPT !.edits = @ + 1]
                       ELSE [edits |-> 1, fires |-> 0]
    /\ last' = Event("change", d, phpmdService, HadDiags(services, phpmdService, d))
    /\ UNCHANGED <<settings, env, phpmdService, serviceClass, activeEditor,
                   extListenerPos, call, extensionVersion>>
    /\ SetStatus(St)

\* The debounce interval of timer k of service i has elapsed: its callback
\* analyses the document it was armed for.
TimerFire(i, k) ==
    /\ call = NoCall
    /\ i \in 1..Len(services)
    /\ k \in 1..Len(services[i].armed)
    /\ LET svc  == services[i]
           d    == svc.armed[k]
           rest == [svc EXCEPT
                      !.armed = SubSeq(svc.armed, 1, k - 1)
                                \o SubSeq(svc.armed, k + 1, Len(svc.armed)),
                      !.documentValidation = IF k = Len(svc.armed) THEN FALSE ELSE @]
       IN  /\ \E e2 \in AnalysisEnvs(env), run \in RunsIn(env) :
                LET r == analyzeFile(i, rest, d, settings, env, e2, run) IN
                /\ services' = [services EXCEPT ![i] = r.svc]
                /\ log' = r.ops
                /\ UNCHANGED <<settings, env, phpmdService, serviceClass,
                               activeEditor, extListenerPos, call, extensionVersion>>
                /\ SetStatus(AfterDiagnostics(St, r.ops, services, e2))
           /\ burst' = IF i = phpmdService
                       THEN [burst EXCEPT !.fires = @ + 1]
                       ELSE burst
           /\ last' = Event("timer", d, i, svc.diags[d] # <<>>)

\* The container environment changes under the extension.
EnvChange(e) ==
    /\ call = NoCall
    /\ e # env
    /\ env' = e
    /\ log' = <<>>
    /\ last' = Event("env", "none", 0, FALSE)
    /\ UNCHANGED <<settings, services, phpmdService, serviceClass, activeEditor,
                   extListenerPos, burst, call, extensionVersion>>
    /\ SetStatus(St)

\* The command 'ddev-phpmd.analyzeCurrentFile' is executed.
AnalyzeCurrentFile ==
    /\ call = NoCall
    /\ \E e2 \in SecondEnvs(env), run \in RunsIn(env) :
         \E r \in {AnalyzeCurrentFileOf(extensionVersion, services, phpmdService, St,
                                        activeEditor, settings, env, e2, run)} :
             /\ Len(r.services) <= MaxServices
             /\ services' = r.services
             /\ phpmdService' = r.phpmdService
             /\ log' = r.ops
             /\ burst' = IF r.phpmdService = phpmdService THEN burst ELSE NoBurst
             /\ UNCHANGED <<settings, env, serviceClass, activeEditor, extListenerPos,
                            call, extensionVersion>>
             /\ SetStatus(AfterDiagnostics(r.st, r.ops, services, e2))
    /\ last' = Event("command", activeEditor, phpmdService,
                     HadDiags(services, phpmdService, activeEditor))

\* onDidChangeActiveTextEditor: document d, or no document, becomes active.
ActiveEditorChange(d) ==
    /\ call = NoCall
    /\ d # activeEditor
    /\ activeEditor' = d
    /\ log' = <<>>
    /\ last' = Event("editor", d, phpmdService, FALSE)
    /\ UNCHANGED <<settings, env, services, phpmdService, serviceClass,
                   extListenerPos, burst, call, extensionVersion>>
    /\ \E e2 \in SecondEnvs(env) :
         SetStatus(checkCurrentFileStatus(extensionVersion, St, d, services,
                                          phpmdService, settings, env, e2))

\* The mutant of the interval callback that never initialises anything.
PeriodicCheck_Idle ==
    /\ call = NoCall
    /\ extensionVersion = "part_002"
    /\ log' = <<>>
    /\ last' = Event("probe", "none", phpmdService, FALSE)
    /\ UNCHANGED <<settings, env, services, phpmdService, serviceClass, activeEditor,
                   extListenerPos, burst, call, extensionVersion>>
    /\ SetStatus(St)

\* The callback of the 30-second interval activate() of part_002 sets up.
PeriodicCheck ==
    /\ call = NoCall
    /\ extensionVersion = "part_002"
    /\ \E e2 \in SecondEnvs(env) :
         \E r \in {IF getConfig(settings).enable /\ phpmdService = 0
                  THEN New_initializeService(services, phpmdService, St, settings,
                                             env, e2, TRUE)
                  ELSE [services |-> services, phpmdService |-> phpmdService,
                        ops |-> <<>>, st |-> St, ok |-> TRUE]} :
             /\ Len(r.services) <= MaxServices
             /\ services' = r.services
             /\ phpmdService' = r.phpmdService
             /\ log' = r.ops
             /\ burst' = IF r.phpmdService = phpmdService THEN burst ELSE NoBurst
             /\ UNCHANGED <<settings, env, serviceClass, activeEditor, extListenerPos,
                            call, extensionVersion>>
             /\ SetStatus(AfterDiagnostics(r.st, r.ops, services, e2))
    /\ last' = Event("probe", "none", phpmdService, FALSE)

Next ==
    \/ \E key \in SettingKeys : \E value \in SettingValues(key) : ConfigChange(key, value)
    \/ \E d \in Docs : Save(d)
    \/ \E d \in Docs : Change(d)
    \/ \E i \in 1..MaxServices, k \in 1..MaxBurst : TimerFire(i, k)
    \/ \E e \in Envs : EnvChange(e)

Spec == Init /\ [][Next]_vars

---------------------------------------------------------------------------
(* The state machine of the extension: both versions, the command, the     *)
(* active editor and the status bar                                        *)

\* The documents the user works with here, and what can be active.
ExtDocs == {"a.php", "notes.txt"}
ExtEditors == ExtDocs \cup {"none"}
ExtKeys == {"enable", "validateOn"}

InitExt ==
    /\ serviceClass \in {"PhpmdService", "BasePhpToolService"}
    /\ settings \in {s \in AllSettings : s.minSeverity = DEFAULT_CONFIG.minSeverity}
    /\ env \in Envs
    /\ \E version \in ExtensionVersions, editor \in ExtEditors :
          Activated(version, editor)

NextExt ==
    \/ \E key \in ExtKeys : \E value \in SettingValues(key) : ConfigChange(key, value)
    \/ \E d \in ExtDocs : Save(d)
    \/ AnalyzeCurrentFile
    \/ \E d \in ExtEditors : ActiveEditorChange(d)
    \/ PeriodicCheck
    \/ \E e \in Envs : EnvChange(e)

SpecExt == InitExt /\ [][NextExt]_vars

\* The later version on its own, with the interval it sets up: setInterval
\* keeps calling the callback for as long as the extension is active.
InitProbe ==
    /\ serviceClass \in {"PhpmdService", "BasePhpToolService"}
    /\ settings \in {s \in AllSettings : s.minSeverity = DEFAULT_CONFIG.minSeverity
                                          /\ s.validateOn = DEFAULT_CONFIG.validateOn}
    /\ env \in Envs
    /\ \E editor \in ExtEditors : Activated("part_002", editor)

NextProbe ==
    \/ \E value \in BOOLEAN : ConfigChange("enable", value)
    \/ \E d \in ExtDocs : Save(d)
    \/ \E d \in ExtEditors : ActiveEditorChange(d)
    \/ PeriodicCheck
    \/ \E e \in Envs : EnvChange(e)

SpecProbe == InitProbe /\ [][NextProbe]_vars /\ WF_vars(PeriodicCheck)

---------------------------------------------------------------------------
(* The validator on its own: every pair of environments, one call          *)


PendingResult ==
    [isValid |-> FALSE, errorType |-> "pending", errorMessage |-> <<>>,
     userMessage |-> <<>>, userDetail |-> <<>>, attempts |-> 0]

ValidateCalls ==
    [fn : {"validateDdevTool"}, e1 : AllEnvs, e2 : AllEnvs,
     done : {FALSE}, out : {PendingResult}]

ApplyValidate ==
    /\ call.fn = "validateDdevTool"
    /\ ~call.done
    /\ call' = [call EXCEPT !.done = TRUE,
                            !.out = validateDdevTool("phpmd", call.e1, call.e2)]
    /\ UNCHANGED <<settings, env, services, phpmdService, serviceClass,
                   activeEditor, extListenerPos, burst, log, last, extVars>>

Validated == call.fn = "validateDdevTool" /\ call.done

InitValidate ==
    /\ call \in ValidateCalls
    /\ serviceClass = "PhpmdService"
    /\ settings = DEFAULT_CONFIG
    /\ env = call.e1
    /\ services = <<>>
    /\ phpmdService = 0
    /\ activeEditor = "none"
    /\ extListenerPos = 0
    /\ burst = NoBurst
    /\ log = <<>>
    /\ last = Event("call", "none", 0, FALSE)
    /\ extensionVersion = "extension.ts"
    /\ currentFileHasIssues = FALSE
    /\ ddevServiceStatus = "disabled"
    /\ statusBarItem = TextReady
    /\ statusUpdated = FALSE

NextValidate == ApplyValidate

SpecValidate == InitValidate /\ [][NextValidate]_vars

ErrorTypes == {"no-ddev-project", "ddev-not-running", "tool-not-found", "unknown"}


---------------------------------------------------------------------------
(* Properties of the state machine                                         *)

\* The last event started an analysis attempt in some service.
Analysing == last.kind \in {"save", "timer"}

\* A call of the collection or of the environment that service i made for
\* document d precedes position k of the log.
Preceded(k, name, i, d) ==
    \E j \in 1..(k - 1) :
        log[j].op = name /\ log[j].ok /\ log[j].svc = i /\ log[j].doc = d

\* C1: under on-type mode a burst of change events leaves one timer armed
\* in the service, for the document of the last event; the change events
\* start no analysis, and the timer starts one analysis of that document.
\* A disposed service still arms its timer, and its analysis stops at the
\* first call of its collection.
C1_BurstStartsOneAnalysis ==
    /\ burst.fires <= 1
    /\ \A i \in 1..Len(services) : Len(services[i].armed) <= 1
    /\ (phpmdService # 0 /\ services[phpmdService].armed # <<>>)
          => burst.fires = 0 /\ burst.edits >= 1
    /\ last.kind = "change"
          => /\ \A k \in 1..Len(log) :
                   log[k].op = "setTimeout" =>
                       services[log[k].svc].armed = <<last.doc>>
             /\ ~HasOp(log, "delete") /\ ~HasOp(log, "exec")
    /\ last.kind = "timer"
          => /\ services[last.svc].armed = <<>>
             /\ Cardinality(OpsOf(log, "delete")) <= 1
             /\ Cardinality(OpsOf(log, "exec")) <= 1
             /\ last.svc = phpmdService =>
                   /\ Cardinality(OpsOf(log, "delete")) = 1
                   /\ log[1].op = "delete" /\ log[1].ok /\ log[1].doc = last.doc
             /\ last.svc # phpmdService =>
                   ~HasOp(log, "exec") /\ ~HasOp(log, "set")

\* A timer has fired after a burst of at least two change events and its
\* analysis ran the tool.
C1_Witness ==
    /\ last.kind = "timer"
    /\ burst.edits >= 2 /\ burst.fires = 1
    /\ HasOp(log, "exec")

\* C2: once the enabled flag is false and the change has been handled, no
\* service holds a diagnostic for any document.
C2_DisabledHoldsNothing ==
    ~settings.enable =>
        /\ phpmdService = 0
        /\ \A i \in 1..Len(services) : \A d \in Docs : services[i].diags[d] = <<>>

\* The tool has just been disabled while the service held diagnostics.
C2_Witness ==
    /\ ~settings.enable
    /\ last.kind = "config" /\ last.doc = "enable" /\ last.hadDiags
    /\ HasOp(log, "dispose")

\* C3: while the tool is disabled no event sets diagnostics, runs the tool
\* or arms a timer; disabling cancels the timer of the service it disposes,
\* and a timer that still fires does nothing.
C3_NothingPublishedWhileDisabled ==
    ~settings.enable =>
        /\ \A k \in 1..Len(log) : log[k].op \notin {"set", "exec", "setTimeout"}
        /\ (last.kind = "config" /\ last.svc # 0) =>
              /\ services[last.svc].armed = <<>>
              /\ ~services[last.svc].documentValidation
        /\ last.kind = "timer" => log = <<>>

\* The tool has just been disabled while a debounce timer was pending.
C3_Witness ==
    /\ ~settings.enable
    /\ last.kind = "config"
    /\ HasOp(log, "dispose") /\ HasOp(log, "clearTimeout")

\* C4: an analysis attempt deletes the document's diagnostics before
\* anything else, sets a new sequence only when it is non-empty, and leaves
\* the document with exactly that sequence; after an empty result or output
\* that is not JSON the document holds nothing.
C4_AttemptReplacesDiagnostics ==
    Analysing =>
      \A k \in 1..Len(log) :
        /\ log[k].op # "delete" => Preceded(k, "delete", log[k].svc, log[k].doc)
        /\ log[k].op = "set" => log[k].arg # <<>>
        /\ (log[k].op = "delete" /\ log[k].ok) =>
              services[log[k].svc].diags[log[k].doc] =
                 (IF \E j \in (k + 1)..Len(log) :
                        log[j].op = "set" /\ log[j].svc = log[k].svc
                    THEN log[CHOOSE j \in (k + 1)..Len(log) :
                               log[j].op = "set" /\ log[j].svc = log[k].svc].arg
                    ELSE <<>>)
        /\ (log[k].op = "exec" /\ log[k].ok
            /\ (log[k].arg.stdout.kind # "json"
                \/ log[k].arg.stdout.result.files = <<>>)) =>
              services[log[k].svc].diags[log[k].doc] = <<>>

\* An attempt on a document that held diagnostics ran the tool, got an
\* empty result, and left the document with none.
C4_Witness ==
    /\ Analysing /\ last.hadDiags
    /\ \E k \in 1..Len(log) :
          /\ log[k].op = "exec" /\ log[k].ok
          /\ log[k].arg.stdout = StdoutJson(EmptyResult)
          /\ log[k].svc = last.svc
    /\ services[last.svc].diags[last.doc] = <<>>

\* The attempt of the last event met a missing tool: the validation said
\* so, or, where the service does not validate, the environment is so.
ToolMissingAttempt ==
    /\ Analysing
    /\ \E k \in 1..Len(log) : log[k].op = "delete" /\ log[k].ok
    /\ IF HasOp(log, "validate")
       THEN \E k \in 1..Len(log) :
               log[k].op = "validate" /\ log[k].arg.errorType = "tool-not-found"
       ELSE env.marker /\ env.ddev = "missing"

\* C5: an attempt that meets a missing tool runs nothing in the container
\* and leaves the diagnostics of the document as they were.
C5_ToolMissingLeavesDiagnostics ==
    ToolMissingAttempt =>
        /\ ~HasOp(log, "exec")
        /\ last.hadDiags => services[last.svc].diags[last.doc] # <<>>

\* C6: every attempt validates the environment as it is at that moment,
\* before the tool is run, and the tool is run only when that validation
\* passed.
C6_ValidationPrecedesExecution ==
    Analysing =>
      \A k \in 1..Len(log) :
        /\ (log[k].op = "delete" /\ log[k].ok) =>
              /\ k < Len(log)
              /\ log[k + 1].op \in {"validate", "isDdevProject"}
              /\ log[k + 1].svc = log[k].svc
        /\ log[k].op = "validate" =>
              log[k].arg.isValid = (env.marker /\ env.ddev = "ready")
        /\ log[k].op = "isDdevProject" =>
              log[k].arg = (env.marker /\ env.ddev \in {"ready", "missing"})
        /\ log[k].op = "exec" =>
              /\ k > 1
              /\ \/ log[k - 1].op = "validate" /\ log[k - 1].arg.isValid
                 \/ log[k - 1].op = "isDdevProject" /\ log[k - 1].arg
              /\ log[k - 1].svc = log[k].svc
              /\ env.marker /\ env.ddev \in {"ready", "missing"}

\* A live service, created after a validation that passed, makes an attempt
\* whose validation fails, and runs nothing.
C6_Witness ==
    /\ Analysing /\ phpmdService # 0
    /\ \E k \in 1..Len(log) :
          \/ log[k].op = "validate" /\ ~log[k].arg.isValid
          \/ log[k].op = "isDdevProject" /\ ~log[k].arg
    /\ ~HasOp(log, "exec")

\* C10: execDdev fails exactly when the process failed and wrote nothing to
\* stdout; the sample result gives the same diagnostics whatever the exit
\* code, two of them unless only errors are reported, and no message; a
\* failure without stdout gives a message and no diagnostics.
C10_StdoutDecides ==
    \A k \in 1..Len(log) :
      log[k].op = "exec" =>
        LET out  == log[k].arg
            held == services[log[k].svc].diags[log[k].doc]
        IN  /\ ~log[k].ok = (out.exit # 0 /\ out.stdout.kind = "empty")
            /\ (out.stdout = StdoutJson(SampleResult)) =>
                  /\ ~HasOp(log, "message")
                  /\ Len(held) = (IF settings.minSeverity = "error" THEN 1 ELSE 2)
                  /\ held[Len(held)].severity = SeverityError
                  /\ settings.minSeverity # "error" => held[1].severity = SeverityWarning
            /\ ~log[k].ok =>
                  /\ held = <<>>
                  /\ ~HasOp(log, "set")
                  /\ \E j \in (k + 1)..Len(log) : log[j].op = "message"

\* A run that exited with 2 and wrote the sample result published two
\* diagnostics.
C10_Witness ==
    \E k \in 1..Len(log) :
        /\ log[k].op = "exec" /\ log[k].ok
        /\ log[k].arg.exit = 2
        /\ log[k].arg.stdout = StdoutJson(SampleResult)
        /\ Len(services[log[k].svc].diags[log[k].doc]) = 2

---------------------------------------------------------------------------
(* Properties of validateDdevTool                                          *)

\* The text the second version attempt of the call leaves to classify.
CapturedText ==
    IF call.e2.ddev = "ready" THEN <<>>
    ELSE IF Failure(call.e2.ddev).message # <<>>
    THEN Failure(call.e2.ddev).message ELSE Failure(call.e2.ddev).stderr

\* C7: without the marker the result is invalid, of kind no-ddev-project,
\* says 'No DDEV project found', and nothing was run in the container.
C7_NoMarkerNoInvocation ==
    (Validated /\ ~call.e1.marker) =>
        /\ ~call.out.isValid
        /\ call.out.errorType = "no-ddev-project"
        /\ call.out.userMessage = <<"No", "DDEV", "project", "found">>
        /\ call.out.attempts = 0

\* A call has returned for a workspace without the marker whose container
\* would have answered.
C7_Witness ==
    Validated /\ ~call.e1.marker /\ call.e1.ddev = "ready"

C9_StoppedHintInUserMessage ==
    (Validated /\ call.e1.marker
     /\ call.e1.ddev = "testmsg" /\ call.e2.ddev = "testmsg") =>
        /\ ~call.out.isValid
        /\ call.out.errorType = "unknown"
        /\ Includes(call.out.userMessage, <<"PHPMD", "not", "available">>)
        /\ Includes(call.out.userMessage, <<"DDEV", "appears", "to", "be", "stopped">>)

\* C11: a save of a PHP document starts an analysis at once, without a
\* timer, when the tool is enabled and the mode is on-save; a save while the
\* mode is on-type, or while the tool is disabled, starts none.
C11_SaveAnalysesOnlyOnSaveMode ==
    (last.kind = "save" /\ languageId(last.doc) = "php") =>
        /\ (settings.enable /\ settings.validateOn = "save" /\ phpmdService # 0) =>
              /\ \E k \in 1..Len(log) :
                    /\ log[k].op = "delete" /\ log[k].ok
                    /\ log[k].svc = phpmdService /\ log[k].doc = last.doc
              /\ ~HasOp(log, "setTimeout")
        /\ (~settings.enable \/ settings.validateOn = "type") =>
              ~HasOp(log, "delete") /\ ~HasOp(log, "exec")


---------------------------------------------------------------------------
(* DiagnosticUtils and the translation loop as functions of their inputs   *)

\* Priorities a PHPMD report can carry: the documented 1..5 and values
\* outside them (the test suite uses 99).
Priorities == {0, 1, 2, 3, 4, 5, 6, 99}
InRangePriorities == {1, 2, 3, 4, 5}
Severities == {SeverityError, SeverityWarning, SeverityInformation}
MinSeverities == {"error", "warning", "info"}
MaxViolations == 2

\* A violation of the sample with another priority.
ViolationOf(priority) == [SampleViolation1 EXCEPT !.priority = priority]

RECURSIVE ViolationsOf(_)
ViolationsOf(priorities) ==
    IF priorities = <<>> THEN <<>>
    ELSE <<ViolationOf(Head(priorities))>> \o ViolationsOf(Tail(priorities))

PrioritySeqs ==
    UNION {[1..n -> Priorities] : n \in 0..MaxViolations}

SeverityCalls ==
    [fn : {"getSeverity"}, priority : Priorities, done : {FALSE}, out : {SeverityWarning}]
    \cup [fn : {"shouldReportSeverity"}, severity : Severities,
          minSeverity : MinSeverities, done : {FALSE}, out : {FALSE}]
    \cup [fn : {"translate"}, priorities : PrioritySeqs,
          minSeverity : MinSeverities, done : {FALSE}, out : {<<>>}]

ApplyGetSeverity ==
    /\ call.fn = "getSeverity"
    /\ ~call.done
    /\ call' = [call EXCEPT !.done = TRUE, !.out = getSeverity(call.priority)]
    /\ UNCHANGED <<settings, env, services, phpmdService, serviceClass,
                   activeEditor, extListenerPos, burst, log, last, extVars>>

ApplyShouldReport ==
    /\ call.fn = "shouldReportSeverity"
    /\ ~call.done
    /\ call' = [call EXCEPT !.done = TRUE,
                            !.out = shouldReportSeverity(call.severity, call.minSeverity)]
    /\ UNCHANGED <<settings, env, services, phpmdService, serviceClass,
                   activeEditor, extListenerPos, burst, log, last, extVars>>

\* The two loops of processPhpmdOutput over one file with the given
\* violations.
ApplyTranslate ==
    /\ call.fn = "translate"
    /\ ~call.done
    /\ call' = [call EXCEPT !.done = TRUE,
                   !.out = TranslateFiles(
                               << [file |-> "test.php",
                                   violations |-> ViolationsOf(call.priorities)] >>,
                               call.minSeverity)]
    /\ UNCHANGED <<settings, env, services, phpmdService, serviceClass,
                   activeEditor, extListenerPos, burst, log, last, extVars>>

InitSeverity ==
    /\ call \in SeverityCalls
    /\ serviceClass = "PhpmdService"
    /\ settings = DEFAULT_CONFIG
    /\ env \in {e \in Envs : e.marker /\ e.ddev = "ready"}
    /\ services = <<>>
    /\ phpmdService = 0
    /\ activeEditor = "none"
    /\ extListenerPos = 0
    /\ burst = NoBurst
    /\ log = <<>>
    /\ last = Event("call", "none", 0, FALSE)
    /\ extensionVersion = "extension.ts"
    /\ currentFileHasIssues = FALSE
    /\ ddevServiceStatus = "disabled"
    /\ statusBarItem = TextReady
    /\ statusUpdated = FALSE

NextSeverity == ApplyGetSeverity \/ ApplyShouldReport \/ ApplyTranslate

SpecSeverity == InitSeverity /\ [][NextSeverity]_vars

\* C18: the severity of a priority is Error for 1, Warning for 2 and 3,
\* Information for 4 and 5, and Warning for every priority outside 1..5;
\* within 1..5 a larger priority number never has a more severe result.
C18_PriorityToSeverity ==
    (call.fn = "getSeverity" /\ call.done) =>
        /\ (call.priority = 1) => call.out = SeverityError
        /\ (call.priority \in {2, 3}) => call.out = SeverityWarning
        /\ (call.priority \in {4, 5}) => call.out = SeverityInformation
        /\ (call.priority \notin InRangePriorities) => call.out = SeverityWarning
        /\ (call.priority \in InRangePriorities) =>
              \A p \in InRangePriorities :
                  p <= call.priority => getSeverity(p) <= call.out

C18_Witness ==
    call.fn = "getSeverity" /\ call.done /\ call.priority = 99
    /\ call.out = SeverityWarning

\* C19: under 'info' every severity is reported, under 'warning' exactly
\* Error and Warning, under 'error' exactly Error; what a stricter setting
\* reports, every laxer setting reports too.
C19_ShouldReportNested ==
    (call.fn = "shouldReportSeverity" /\ call.done) =>
        /\ (call.minSeverity = "info") => call.out
        /\ (call.minSeverity = "warning") =>
              (call.out <=> call.severity \in {SeverityError, SeverityWarning})
        /\ (call.minSeverity = "error") =>
              (call.out <=> call.severity = SeverityError)
        /\ shouldReportSeverity(call.severity, "error")
              => shouldReportSeverity(call.severity, "warning")
        /\ shouldReportSeverity(call.severity, "warning")
              => shouldReportSeverity(call.severity, "info")

C19_Witness ==
    call.fn = "shouldReportSeverity" /\ call.done
    /\ call.minSeverity = "warning" /\ call.severity = SeverityInformation
    /\ ~call.out

\* The severities a minSeverity setting lets through.
AcceptedBy(minSeverity) ==
    CASE minSeverity = "error" -> {SeverityError}
      [] minSeverity = "warning" -> {SeverityError, SeverityWarning}
      [] OTHER -> {SeverityError, SeverityWarning, SeverityInformation}

\* The last event ran the tool for document last.doc in the live service and
\* the tool wrote the two-violation sample.
SampleAnalysed ==
    /\ Analysing
    /\ \E k \in 1..Len(log) :
          /\ log[k].op = "exec" /\ log[k].ok
          /\ log[k].svc = phpmdService /\ log[k].doc = last.doc
          /\ log[k].arg.stdout = StdoutJson(SampleResult)

\* C20: after an analysis attempt of a document every diagnostic the service
\* holds for it has a severity that the minSeverity in force at the attempt
\* lets through; with minSeverity 'error' the two-violation sample leaves
\* exactly the diagnostic of its priority-1 violation.
C20_HeldDiagnosticsPassFilter ==
    Analysing =>
        /\ \A k \in 1..Len(log) :
              (log[k].op = "delete" /\ log[k].ok) =>
                  \A j \in 1..Len(services[log[k].svc].diags[log[k].doc]) :
                      services[log[k].svc].diags[log[k].doc][j].severity
                          \in AcceptedBy(settings.minSeverity)
        /\ (SampleAnalysed /\ settings.minSeverity = "error") =>
              /\ Len(services[phpmdService].diags[last.doc]) = 1
              /\ services[phpmdService].diags[last.doc][1].code.value = "ShortVariable"
              /\ services[phpmdService].diags[last.doc][1].severity = SeverityError

C20_Witness ==
    /\ SampleAnalysed
    /\ settings.minSeverity = "error"
    /\ Len(services[phpmdService].diags[last.doc]) = 1

\* The runs of the tool that the last event started for document d.
RunsStarted(d) == {k \in 1..Len(log) : log[k].op = "exec" /\ log[k].doc = d}

---------------------------------------------------------------------------
(* Properties of the extension                                             *)

\* validateDdevTool would pass in the environment as it is now.
EnvValid == validateDdevTool("phpmd", env, env).isValid

\* The last event started an analysis attempt of document d in the live
\* service.
AttemptOf(d) ==
    \E k \in 1..Len(log) :
        /\ log[k].op = "delete" /\ log[k].ok
        /\ log[k].svc = phpmdService /\ log[k].doc = d

\* C12: the command, when the tool is disabled, only warns that it is
\* disabled (no validation, no run of the tool); when the tool is enabled,
\* the environment is valid and a PHP document is active, it starts an
\* analysis of that document at once, without a timer, in either mode.
C12_CommandAnalysesWhenEnabled ==
    (last.kind = "command") =>
        /\ ~settings.enable => log = <<WarnDisabled>>
        /\ (settings.enable /\ last.doc \in PhpDocs /\ EnvValid) =>
              AttemptOf(last.doc) /\ ~HasOp(log, "setTimeout")

\* C13: the command, invoked while the tool is enabled and no document is
\* active, changes no diagnostics, runs nothing and shows a warning.
C13_NoDocumentWarns ==
    (last.kind = "command" /\ settings.enable /\ last.doc = "none") =>
        /\ ~HasOp(log, "delete") /\ ~HasOp(log, "set") /\ ~HasOp(log, "clear")
        /\ ~HasOp(log, "exec")
        /\ HasOp(log, "warning") \/ HasOp(log, "message")

\* The display the four-state rule gives: Disabled when not enabled,
\* Unavailable when enabled and validation fails, HasIssues when enabled and
\* valid and the active document has issues, Clean otherwise.
DisplayOf(enabled, valid, hasIssues) ==
    IF ~enabled THEN TextDisabled
    ELSE IF ~valid THEN TextNotAvailable
    ELSE IF hasIssues THEN TextHasIssues
    ELSE TextReady

\* C16: whenever an event has recomputed the status bar, its text is the
\* four-state function of the enable setting, of what validation answers
\* and of whether the active document has issues.
C16_StatusIsFunctionOfInputs ==
    statusUpdated =>
        statusBarItem = DisplayOf(settings.enable, EnvValid, currentFileHasIssues)

\* The active document holds phpmd diagnostics.
ActiveHasIssues ==
    /\ activeEditor # "none"
    /\ languageId(activeEditor) = "php"
    /\ PhpmdDiagnostics(services, activeEditor) # {}

\* The last event changed the diagnostics of the active document.
ActiveDiagnosticsChanged ==
    \E k \in 1..Len(log) :
        log[k].op \in {"delete", "set"} /\ log[k].ok /\ log[k].doc = activeEditor

OwnValidations == {k \in 1..Len(log) : log[k].op = "validate" /\ log[k].svc = 0}

\* What a run of the interval callback must leave.
ProbeStep ==
    /\ (last.kind = "probe" /\ (~settings.enable \/ last.svc # 0)) =>
          log = <<>> /\ ~statusUpdated /\ phpmdService = last.svc
    /\ (last.kind = "probe" /\ settings.enable /\ last.svc = 0) =>
          /\ Cardinality(OwnValidations) = 1
          /\ ~HasOp(log, "warning") /\ ~HasOp(log, "message")
          /\ EnvValid => phpmdService # 0
          /\ ~EnvValid => phpmdService = 0
    /\ \A k \in OwnValidations :
          ~log[k].arg.isValid =>
              \A j \in (k + 1)..Len(log) : log[j].op \notin {"validate", "create"}

\* C15: the interval callback re-attempts initialisation, silently and
\* once, exactly while the tool is enabled and no service exists, and does
\* nothing otherwise; a failed validation is followed by no further
\* validation or creation in the same event; and a tool that is enabled
\* without a service in a valid environment gets its service, unless the
\* environment or the setting changes first.
C15_ProbeRecoversService ==
    /\ [](ProbeStep)
    /\ (settings.enable /\ phpmdService = 0 /\ EnvValid /\ Len(services) < MaxServices)
          ~> (phpmdService # 0 \/ ~EnvValid \/ ~settings.enable)

\* The interval callback found the environment valid again and created the
\* service.
C15_Witness ==
    /\ last.kind = "probe" /\ last.svc = 0
    /\ phpmdService # 0
    /\ HasOp(log, "create")

---------------------------------------------------------------------------
(* createDiagnostic and processPhpmdOutput applied to bounded reports      *)

MaxFiles == 2

\* The part of the state a call of a pure function leaves alone.
HarnessIdle ==
    /\ settings = DEFAULT_CONFIG
    /\ env = [marker |-> TRUE, ddev |-> "ready"]
    /\ services = <<>>
    /\ phpmdService = 0
    /\ activeEditor = "none"
    /\ extListenerPos = 0
    /\ burst = NoBurst
    /\ log = <<>>
    /\ last = Event("call", "none", 0, FALSE)
    /\ extensionVersion = "extension.ts"
    /\ currentFileHasIssues = FALSE
    /\ ddevServiceStatus = "disabled"
    /\ statusBarItem = TextReady
    /\ statusUpdated = FALSE

\* Violations a report can carry: the 1-based lines of the sample and line 0,
\* other end lines and columns, the three severities, with and without a URL.
DiagViolations ==
    [beginLine : {0, 1, 10, 20}, endLine : {20, 25}, beginColumn : {1, 5},
     endColumn : {1, 20}, description : {"The method has 15 parameters."},
     rule : {"ExcessiveParameterList", "ShortVariable"}, ruleSet : {"codesize"},
     priority : {1, 3, 5},
     externalInfoUrl : {NoUrl, UrlEmpty, UrlIllegal, SampleViolation1.externalInfoUrl}]

\* The violations of the bounded reports: the two of the sample, one of
\* priority 5 and one on line 0.
ReportViolations ==
    {SampleViolation1, SampleViolation2,
     [SampleViolation1 EXCEPT !.beginLine = 30, !.priority = 5, !.rule = "LongVariable"],
     [SampleViolation2 EXCEPT !.beginLine = 0, !.priority = 3, !.rule = "CamelCaseClassName"]}

ViolationSeqs == UNION {[1..n -> ReportViolations] : n \in 0..MaxViolations}

FileNames == <<"first.php", "second.php", "third.php">>

ReportFiles(vs) == [f \in 1..Len(vs) |-> [file |-> FileNames[f], violations |-> vs[f]]]

Reports ==
    {[files |-> ReportFiles(vs)] : vs \in UNION {[1..n -> ViolationSeqs] : n \in 0..MaxFiles}}

\* A service of the class with an empty collection and the given snapshot.
ServiceWith(config) ==
    [config |-> config, armed |-> <<>>, documentValidation |-> FALSE,
     diags |-> [d \in Docs |-> <<>>], disposed |-> FALSE]

DiagnosticCalls ==
    [fn : {"createDiagnostic"}, violation : DiagViolations, done : {FALSE},
     threw : {FALSE}, out : {createDiagnostic(SampleViolation1)}]
    \cup [fn : {"processPhpmdOutput"}, result : Reports, minSeverity : MinSeverities,
          done : {FALSE}, threw : {FALSE}, out : {<<>>}]

ApplyCreateDiagnostic ==
    /\ call.fn = "createDiagnostic"
    /\ ~call.done
    /\ call' = [call EXCEPT !.done = TRUE,
                            !.threw = createDiagnosticThrows(call.violation),
                            !.out = IF createDiagnosticThrows(call.violation)
                                    THEN call.out
                                    ELSE createDiagnostic(call.violation)]
    /\ UNCHANGED <<settings, env, services, phpmdService, serviceClass,
                   activeEditor, extListenerPos, burst, log, last, extVars>>

\* processPhpmdOutput of a fresh service for a.php; out is what the
\* collection then holds for the document.
ApplyProcessOutput ==
    /\ call.fn = "processPhpmdOutput"
    /\ ~call.done
    /\ \E r \in {processPhpmdOutput(1, ServiceWith(DEFAULT_CONFIG),
                                    StdoutJson(call.result), "a.php",
                                    call.minSeverity)} :
          call' = [call EXCEPT !.done = TRUE,
                               !.threw = HasOp(r.ops, "message"),
                               !.out = r.svc.diags["a.php"]]
    /\ UNCHANGED <<settings, env, services, phpmdService, serviceClass,
                   activeEditor, extListenerPos, burst, log, last, extVars>>

InitDiagnostic ==
    /\ call \in DiagnosticCalls
    /\ serviceClass = "PhpmdService"
    /\ HarnessIdle

NextDiagnostic == ApplyCreateDiagnostic \/ ApplyProcessOutput

SpecDiagnostic == InitDiagnostic /\ [][NextDiagnostic]_vars

\* The violations of a report in the order of the input: files in order,
\* violations in order within each file.
RECURSIVE ViolationsInOrder(_)
ViolationsInOrder(files) ==
    IF files = <<>> THEN <<>>
    ELSE Head(files).violations \o ViolationsInOrder(Tail(files))

PassesFilter(violation, minSeverity) ==
    \/ minSeverity = "info"
    \/ (minSeverity = "warning" /\ violation.priority \notin {4, 5})
    \/ (minSeverity = "error" /\ violation.priority = 1)

WellFormed(violation) ==
    violation.beginLine >= 1 /\ violation.externalInfoUrl # UrlIllegal

\* The violations of the call's report that pass its filter, in input order.
Kept ==
    SelectSeq(ViolationsInOrder(call.result.files),
              LAMBDA v : PassesFilter(v, call.minSeverity))

\* C21: the diagnostics produced from a well-formed result are one per
\* violation that passes the severity filter, in the order of the input, and
\* the i-th diagnostic starts on the zero-based line of the i-th such
\* violation; the sample's lines 10 and 20 give 9 and 19.
C21_TranslationKeepsOrder ==
    (/\ call.fn = "processPhpmdOutput" /\ call.done
     /\ \A k \in 1..Len(ViolationsInOrder(call.result.files)) :
           WellFormed(ViolationsInOrder(call.result.files)[k])) =>
        /\ ~call.threw
        /\ Len(call.out) = Len(Kept)
        /\ \A k \in 1..Len(call.out) :
              /\ call.out[k].range.start.line = Kept[k].beginLine - 1
              /\ call.out[k].code.value = Kept[k].rule
              /\ call.out[k].message = <<Kept[k].description, Kept[k].rule>>
        /\ (call.result = SampleResult /\ call.minSeverity # "error") =>
              /\ Len(call.out) = 2
              /\ call.out[1].range.start.line = 9
              /\ call.out[2].range.start.line = 19

C21_Witness ==
    /\ call.fn = "processPhpmdOutput" /\ call.done
    /\ Len(call.result.files) = 2
    /\ call.result.files[1].violations = <<SampleViolation2>>
    /\ call.result.files[2].violations = <<SampleViolation1, SampleViolation2>>
    /\ call.minSeverity = "warning"
    /\ Len(call.out) = 3
    /\ call.out[1].range.start.line = 19
    /\ call.out[2].range.start.line = 9

\* C27: for a violation with beginLine >= 1 the range starts at
\* (beginLine - 1, column 0) and ends at the end of that same line, whatever
\* the violation's endLine, beginColumn and endColumn are; no range a report
\* publishes has a negative line or the tool's 1-based line.
C27_RangeIsWholeZeroBasedLine ==
    /\ (call.fn = "createDiagnostic" /\ call.done /\ call.violation.beginLine >= 1
        /\ ~call.threw) =>
          /\ call.out.range.start = [line |-> call.violation.beginLine - 1, character |-> 0]
          /\ call.out.range.end.line = call.violation.beginLine - 1
          /\ call.out.range.end.character = NumberMaxValue
    /\ (call.fn = "createDiagnostic" /\ call.done /\ call.violation.beginLine >= 1) =>
          (call.threw <=> call.violation.externalInfoUrl = UrlIllegal)
    /\ (call.fn = "processPhpmdOutput" /\ call.done) =>
          \A k \in 1..Len(call.out) :
              /\ call.out[k].range.start.line >= 0
              /\ call.out[k].range.end.line = call.out[k].range.start.line
              /\ call.out[k].range.start.character = 0
              /\ \E j \in 1..Len(ViolationsInOrder(call.result.files)) :
                    /\ ViolationsInOrder(call.result.files)[j].rule = call.out[k].code.value
                    /\ ViolationsInOrder(call.result.files)[j].beginLine
                          = call.out[k].range.start.line + 1

C27_Witness ==
    /\ call.fn = "createDiagnostic" /\ call.done /\ ~call.threw
    /\ call.violation.beginLine = 10
    /\ call.violation.endLine = 25
    /\ call.violation.beginColumn = 5
    /\ call.violation.endColumn = 20
    /\ call.out.range.start = [line |-> 9, character |-> 0]
    /\ call.out.range.end = [line |-> 9, character |-> NumberMaxValue]

\* C28: every diagnostic has the source 'phpmd' and the violation's rule as
\* the value of its code; the code is the pair (rule, URL) when the violation
\* has an externalInfoUrl and the bare rule when it has none.
C28_SourceAndCode ==
    /\ (call.fn = "createDiagnostic" /\ call.done /\ ~call.threw) =>
          /\ call.out.source = "phpmd"
          /\ call.out.code.value = call.violation.rule
          /\ (call.violation.externalInfoUrl \notin {NoUrl, UrlEmpty}) =>
                /\ call.out.code.pair
                /\ call.out.code.target = call.violation.externalInfoUrl
          /\ (call.violation.externalInfoUrl \in {NoUrl, UrlEmpty}) =>
                ~call.out.code.pair
    /\ (call.fn = "processPhpmdOutput" /\ call.done) =>
          \A k \in 1..Len(call.out) :
              /\ call.out[k].source = "phpmd"
              /\ call.out[k].code.value = Kept[k].rule
              /\ call.out[k].code.pair
              /\ call.out[k].code.target = Kept[k].externalInfoUrl

C28_Witness ==
    /\ call.fn = "createDiagnostic" /\ call.done /\ ~call.threw
    /\ call.violation.externalInfoUrl = SampleViolation1.externalInfoUrl
    /\ call.out.code = [pair |-> TRUE, value |-> call.violation.rule,
                        target |-> SampleViolation1.externalInfoUrl]

---------------------------------------------------------------------------
(* Two analysis attempts in a row for one document                         *)

\* A report whose only violation is on line 0: no Position can be built.
BrokenResult ==
    [files |-> << [file |-> "test.php",
                   violations |-> <<[SampleViolation1 EXCEPT !.beginLine = 0]>>] >>]

\* What the tool may do on an attempt: the runs of the state machine, and
\* JSON that parses but is no PHPMD result.
AttemptRuns ==
    Runs \cup {[exit |-> 0, stdout |-> StdoutNull],
               [exit |-> 0, stdout |-> StdoutNoFiles],
               [exit |-> 2, stdout |-> StdoutJson(BrokenResult)]}

Triggers == {"save", "timer", "manual"}

\* The handler a trigger runs in service i: the save listener, the callback
\* of the debounce timer, or the command with d as the active document.
TriggerHandler(kind, i, svc, d, stored, e, e2, run) ==
    CASE kind = "save"  -> onDocumentSave(i, svc, d, stored, e, e2, run)
      [] kind = "timer" -> analyzeFile(i, svc, d, stored, e, e2, run)
      [] OTHER          -> Service_analyzeCurrentFile(i, svc, d, stored, e, e2, run)

\* What the collection may hold for the document before the first attempt.
PriorDiagnostics == {<<>>, <<createDiagnostic(SampleViolation2)>>}

AttemptCalls ==
    [fn : {"attempt"}, trigger : Triggers, doc : {"a.php"},
     runs : [1..2 -> AttemptRuns], prior : PriorDiagnostics,
     stage : {0}, ops : {<<>>}, before : {<<>>}, after : {<<>>}]

\* The next of the two triggers is delivered and its handler runs to its end.
ApplyAttempt ==
    /\ call.fn = "attempt"
    /\ call.stage < 2
    /\ \E e2 \in AnalysisEnvs(env) :
       \E r \in {TriggerHandler(call.trigger, 1, services[1], call.doc, settings,
                                env, e2, call.runs[call.stage + 1])} :
          /\ services' = <<r.svc>>
          /\ log' = r.ops
          /\ call' = [call EXCEPT !.stage = @ + 1,
                                  !.ops = Append(@, r.ops),
                                  !.before = Append(@, services[1].diags[call.doc]),
                                  !.after = Append(@, r.svc.diags[call.doc])]
    /\ UNCHANGED <<settings, env, phpmdService, serviceClass, activeEditor,
                   extListenerPos, burst, last, extVars>>

InitAttempt ==
    /\ call \in AttemptCalls
    /\ serviceClass \in {"PhpmdService", "BasePhpToolService"}
    /\ settings \in AllSettings
    /\ env \in Envs
    /\ services = <<[ServiceWith(IF serviceClass = "PhpmdService"
                                 THEN getConfig(settings) ELSE NoSnapshot)
                       EXCEPT !.diags[call.doc] = call.prior]>>
    /\ phpmdService = 1
    /\ activeEditor = call.doc
    /\ extListenerPos = 1
    /\ burst = NoBurst
    /\ log = <<>>
    /\ last = Event("call", "none", 0, FALSE)
    /\ extensionVersion = "extension.ts"
    /\ currentFileHasIssues = FALSE
    /\ ddevServiceStatus = "disabled"
    /\ statusBarItem = TextReady
    /\ statusUpdated = FALSE

NextAttempt == ApplyAttempt

SpecAttempt == InitAttempt /\ [][NextAttempt]_vars

\* The tool ran in attempt k and wrote `out`.
Ran(k, out) ==
    \E j \in 1..Len(call.ops[k]) :
        /\ call.ops[k][j].op = "exec" /\ call.ops[k][j].ok
        /\ call.ops[k][j].arg.stdout = out

\* C22: two attempts in a row for the same document in which the tool wrote
\* the same output, under the same configuration, leave the diagnostics the
\* first attempt left; nothing is held twice.
C22_PublishingIsIdempotent ==
    (call.fn = "attempt" /\ call.stage = 2
     /\ \E out \in {r.stdout : r \in AttemptRuns} : Ran(1, out) /\ Ran(2, out)) =>
        /\ call.after[2] = call.after[1]
        /\ \A j, k \in 1..Len(call.after[2]) :
              call.after[2][j] = call.after[2][k] => j = k

C22_Witness ==
    /\ call.fn = "attempt" /\ call.stage = 2
    /\ Ran(1, StdoutJson(SampleResult)) /\ Ran(2, StdoutJson(SampleResult))
    /\ Len(call.after[1]) = 2
    /\ call.after[2] = call.after[1]

\* Attempt k failed in validation: the project check of PhpmdService or the
\* validateDdevTool of BasePhpToolService said no.
ValidationFailed(k) ==
    \E j \in 1..Len(call.ops[k]) :
        \/ (call.ops[k][j].op = "isDdevProject" /\ call.ops[k][j].arg = FALSE)
        \/ (call.ops[k][j].op = "validate" /\ ~call.ops[k][j].arg.isValid)

\* Attempt k failed in the remote execution: execDdev threw.
ExecutionFailed(k) ==
    \E j \in 1..Len(call.ops[k]) : call.ops[k][j].op = "exec" /\ ~call.ops[k][j].ok

\* Attempt k failed on the output: text that is no JSON, the JSON value null,
\* or a violation on line 0 that the severity filter let through.
ParsingFailed(k) ==
    \/ Ran(k, StdoutEmpty) \/ Ran(k, StdoutGarbage) \/ Ran(k, StdoutNull)
    \/ (Ran(k, StdoutJson(BrokenResult)) /\ settings.minSeverity # "error")

---------------------------------------------------------------------------
(* The command builder and the executor applied to bounded inputs          *)

CommandFiles == {"a.php", "my file.php", "it's.php"}
CommandConfigPaths == {"", "phpmd.xml", "/workspace/phpmd.xml", "rules/my set.xml"}
CommandRulesets ==
    {<<>>, <<"cleancode">>, <<"cleancode", "codesize">>, DEFAULT_CONFIG.rulesets}
CommandConfigs ==
    [enable : {TRUE}, validateOn : {"save"}, rulesets : CommandRulesets,
     minSeverity : {"warning"}, configPath : CommandConfigPaths]

\* The commands execDdev is given: those the builder makes and the two of
\* the executor's tests.
CommandTexts ==
    {CommandText(buildPhpmdCommand(f, c)) : f \in CommandFiles, c \in CommandConfigs}
    \cup {<<"phpmd", " ", "test.php", " ", "json", " ", "cleancode">>,
          <<"echo", " ", "'", "hello", "'">>}

WorkspacePaths == {"/test/workspace", "/workspace"}

NoCommand == buildPhpmdCommand("a.php", DEFAULT_CONFIG)

CommandCalls ==
    [fn : {"buildPhpmdCommand"}, relativePath : CommandFiles, config : CommandConfigs,
     done : {FALSE}, out : {NoCommand}, text : {<<>>}]
    \cup [fn : {"execDdev"}, command : CommandTexts, workspacePath : WorkspacePaths,
          done : {FALSE}, out : {execSyncCall(<<>>, "/workspace")}]

ApplyBuildCommand ==
    /\ call.fn = "buildPhpmdCommand"
    /\ ~call.done
    /\ call' = [call EXCEPT !.done = TRUE,
                   !.out = buildPhpmdCommand(call.relativePath, call.config),
                   !.text = CommandText(buildPhpmdCommand(call.relativePath, call.config))]
    /\ UNCHANGED <<settings, env, services, phpmdService, serviceClass,
                   activeEditor, extListenerPos, burst, log, last, extVars>>

ApplyExecDdev ==
    /\ call.fn = "execDdev"
    /\ ~call.done
    /\ call' = [call EXCEPT !.done = TRUE,
                            !.out = execSyncCall(call.command, call.workspacePath)]
    /\ UNCHANGED <<settings, env, services, phpmdService, serviceClass,
                   activeEditor, extListenerPos, burst, log, last, extVars>>

\* The words a POSIX shell reads from a line: blanks separate them outside
\* quotes, a single quote runs to the next single quote, a double quote to
\* the next double quote, a backslash outside quotes takes the next piece
\* literally, and a semicolon outside quotes ends the command (shown as the
\* word <<"<;>">>).
RECURSIVE ShellSplit(_, _, _, _, _)
ShellSplit(rest, mode, cur, started, acc) ==
    LET flush == IF started THEN Append(acc, cur) ELSE acc IN
    IF rest = <<>> THEN flush
    ELSE LET c == Head(rest) t == Tail(rest) IN
         CASE mode = "single" ->
                IF c = "'" THEN ShellSplit(t, "none", cur, TRUE, acc)
                ELSE ShellSplit(t, "single", Append(cur, c), TRUE, acc)
           [] mode = "double" ->
                IF c = "\"" THEN ShellSplit(t, "none", cur, TRUE, acc)
                ELSE ShellSplit(t, "double", Append(cur, c), TRUE, acc)
           [] OTHER ->
                IF c = "'" THEN ShellSplit(t, "single", cur, TRUE, acc)
                ELSE IF c = "\"" THEN ShellSplit(t, "double", cur, TRUE, acc)
                ELSE IF c = "\\" /\ t # <<>>
                     THEN ShellSplit(Tail(t), "none", Append(cur, Head(t)), TRUE, acc)
                ELSE IF c = " " THEN ShellSplit(t, "none", <<>>, FALSE, flush)
                ELSE IF c = ";" THEN ShellSplit(t, "none", <<>>, FALSE, Append(flush, <<"<;>">>))
                ELSE ShellSplit(t, "none", Append(cur, c), TRUE, acc)

ShellWords(line) == ShellSplit(line, "none", <<>>, FALSE, <<>>)

\* C23: with a custom config path the command is phpmd, the file, json and
\* the config path, and the rulesets do not appear; without one it is phpmd,
\* the file, json and the rulesets joined by commas; never both.
C23_OneOfTwoForms ==
    (call.fn = "buildPhpmdCommand" /\ call.done) =>
        /\ (call.config.configPath # "") =>
              /\ call.out.form = "configPath"
              /\ ShellWords(call.text) =
                    << <<"phpmd">>, Pieces(call.relativePath), <<"json">>,
                       Pieces(asRelativePath(call.config.configPath)) >>
        /\ (call.config.configPath = "") =>
              /\ call.out.form = "rulesets"
              /\ ShellWords(call.text) =
                    << <<"phpmd">>, Pieces(call.relativePath), <<"json">> >>
                    \o (IF call.config.rulesets = <<>> THEN <<>>
                        ELSE <<JoinComma(call.config.rulesets)>>)

C23_Witness ==
    /\ call.fn = "buildPhpmdCommand" /\ call.done
    /\ call.config.configPath = "rules/my set.xml"
    /\ call.config.rulesets = <<"cleancode", "codesize">>
    /\ call.relativePath = "my file.php"
    /\ ShellWords(call.text) =
          << <<"phpmd">>, <<"my", " ", "file.php">>, <<"json">>,
             <<"rules/my", " ", "set.xml">> >>

\* Raw outputs that are no JSON, character by character: runs of a letter
\* around the cap, with and without a blank line after them.
RunLengths == {0, 1, 199, 200, 201, 250}
RawTails == {<<>>, <<"\n">>, <<"\n", "\n">>, <<"\n", "\n", "y">>,
             <<"\n", "x", "\n", "\n", "z">>}
RawOutputs == {[k \in 1..n |-> "x"] \o t : n \in RunLengths, t \in RawTails}

ShortenCalls ==
    [fn : {"shortenedOutput"}, originalOutput : RawOutputs, done : {FALSE},
     out : {ErrorDetail(<<>>)}]

\* The catch block of processPhpmdOutput builds the detail of its message.
ApplyShorten ==
    /\ call.fn = "shortenedOutput"
    /\ ~call.done
    /\ call' = [call EXCEPT !.done = TRUE, !.out = ErrorDetail(call.originalOutput)]
    /\ UNCHANGED <<settings, env, services, phpmdService, serviceClass,
                   activeEditor, extListenerPos, burst, log, last, extVars>>

InitStrings ==
    /\ call \in CommandCalls \cup ShortenCalls
    /\ serviceClass = "PhpmdService"
    /\ HarnessIdle

NextStrings == ApplyBuildCommand \/ ApplyExecDdev \/ ApplyShorten

SpecStrings == InitStrings /\ [][NextStrings]_vars

\* Every single quote of a text replaced by '\'' .
RECURSIVE EscapeSingleQuotes(_)
EscapeSingleQuotes(text) ==
    IF text = <<>> THEN <<>>
    ELSE (IF Head(text) = "'" THEN <<"'", "\\", "'", "'">> ELSE <<Head(text)>>)
         \o EscapeSingleQuotes(Tail(text))

\* C24: execDdev runs its command in the workspace path and passes it as one
\* single-quoted argument, bash -c 'XDEBUG_MODE=off <command>', with every
\* single quote of the command escaped as '\'' ; the shell then reads the
\* line as the five words ddev, exec, bash, -c and the command text, so that
\* nothing in the command ends the quoting.
C24_CommandIsOneQuotedArgument ==
    (call.fn = "execDdev" /\ call.done) =>
        /\ call.out.cwd = call.workspacePath
        /\ call.out.line =
              <<"ddev", " ", "exec", " ", "bash", " ", "-c", " ", "'",
                "XDEBUG_MODE=off", " ">>
              \o EscapeSingleQuotes(call.command) \o <<"'">>
        /\ ShellWords(call.out.line) =
              << <<"ddev">>, <<"exec">>, <<"bash">>, <<"-c">>,
                 <<"XDEBUG_MODE=off", " ">> \o call.command >>

\* C25: the excerpt shown for an output that cannot be processed is the
\* output up to its first double newline if it has one and its first 200
\* characters otherwise; it is a prefix of the output, never longer than the
\* cap, and an output longer than the cap is never shown whole.
C25_ExcerptIsBounded ==
    (call.fn = "shortenedOutput" /\ call.done /\ call.originalOutput # <<>>) =>
        /\ call.out.hasExcerpt
        /\ Len(call.out.excerpt) <= Len(call.originalOutput)
        /\ call.out.excerpt = SubSeq(call.originalOutput, 1, Len(call.out.excerpt))
        /\ Len(call.out.excerpt) <= ShortenedOutputCap
        /\ Len(call.originalOutput) > ShortenedOutputCap =>
              call.out.excerpt # call.originalOutput

---------------------------------------------------------------------------
(* The extension with its setting commands and every setting changing      *)

\* The values the five settings take here, and a setting of another section.
SnapshotKeys == (DOMAIN DEFAULT_CONFIG \ {"enable"}) \cup {"fontSize"}

SnapshotValues(key) ==
    CASE key = "rulesets" -> {DEFAULT_CONFIG.rulesets, <<"cleancode">>}
      [] key = "configPath" -> {"", "phpmd.xml"}
      [] key = "fontSize" -> {"14"}
      [] OTHER -> SettingValues(key)

NextSettings ==
    \/ \E kind \in CommandKinds : SettingCommand(kind)
    \/ \E key \in SnapshotKeys : \E value \in SnapshotValues(key) : ConfigChange(key, value)

SpecSettings == InitExt /\ [][NextSettings]_vars

\* The information message the last command showed.
Reported(ops, text) ==
    \E k \in 1..Len(ops) : ops[k].op = "info" /\ ops[k].arg = text

\* C29: enable stores true and reports 'enabled', disable stores false and
\* reports 'disabled', toggle stores the negation of the stored flag and
\* reports the new value; no other setting changes; a toggle after a toggle
\* restores the flag the first one read, and an enable after an enable (a
\* disable after a disable) leaves the flag as it is.
C29_CommandsStoreAndReport ==
    [][/\ (last'.kind = "enable") =>
             settings'.enable /\ Reported(log', "DDEV PHPMD enabled.")
       /\ (last'.kind = "disable") =>
             ~settings'.enable /\ Reported(log', "DDEV PHPMD disabled.")
       /\ (last'.kind = "toggle") =>
             /\ settings'.enable = ~settings.enable
             /\ Reported(log', IF settings'.enable THEN "DDEV PHPMD enabled."
                               ELSE "DDEV PHPMD disabled.")
             /\ ~Reported(log', IF settings'.enable THEN "DDEV PHPMD disabled."
                                ELSE "DDEV PHPMD enabled.")
       /\ (last'.kind \in {"enable", "disable", "toggle"}) =>
             settings' = [settings EXCEPT !.enable = settings'.enable]
       /\ (last.kind = "toggle" /\ last'.kind = "toggle") =>
             settings'.enable = log[1].arg
       /\ (last.kind = last'.kind /\ last'.kind \in {"enable", "disable"}) =>
             settings' = settings
      ]_vars

C29_Witness ==
    /\ last.kind = "toggle"
    /\ settings.enable
    /\ Reported(log, "DDEV PHPMD enabled.")
    /\ HasOp(log, "create")

\* C30: in PhpmdService, after every configuration event that affects the
\* section, each of the five fields of the snapshot of every service equals
\* the stored setting; an event that does not affect the section leaves every
\* snapshot as it was.
C30_SnapshotReplacedWholesale ==
    [][(serviceClass = "PhpmdService") =>
          /\ (last'.kind \in {"config", "enable", "disable", "toggle"}) =>
                \A i \in 1..Len(services') :
                    /\ DOMAIN services'[i].config = DOMAIN DEFAULT_CONFIG
                    /\ \A key \in DOMAIN DEFAULT_CONFIG :
                          services'[i].config[key] = settings'[key]
          /\ (last'.kind = "config-other") =>
                /\ Len(services') = Len(services)
                /\ \A i \in 1..Len(services) : services'[i].config = services[i].config
                /\ settings' = settings
      ]_vars

C30_Witness ==
    /\ serviceClass = "PhpmdService"
    /\ last.kind = "config" /\ last.doc = "configPath"
    /\ Len(services) > 0
    /\ \A i \in 1..Len(services) : services[i].config.configPath = "phpmd.xml"
    /\ settings.rulesets = <<"cleancode">>
    /\ settings.validateOn = "type"

---------------------------------------------------------------------------
(* Debounce state and the documents it is kept for                         *)

\* The documents service svc has a debounce timer armed for.
Scheduled(svc) == {svc.armed[k] : k \in 1..Len(svc.armed)}

\* C31: a change event for one document leaves the debounce timer of every
\* other document armed: in every service, a document that was scheduled
\* before the event and is not the event's document is still scheduled after.
C31_DebouncePerDocument ==
    [][(last'.kind = "change") =>
          \A i \in 1..Len(services) :
              Scheduled(services[i]) \ {last'.doc} \subseteq Scheduled(services'[i])
      ]_vars

---------------------------------------------------------------------------
(* One analysis in its steps: the call of execSync and its return          *)

\* How many analyses of one document a run of this machine starts.
MaxRuns == 2

\* child_process.execSync returns only when the process has ended: while an
\* analysis waits in it the thread handles no other event.
ExecSyncBlocks_Async == FALSE

ExecSyncBlocks == TRUE

\* The analyses that have called execSync and not returned, and per document
\* how many were started, which one produced the diagnostics now held and
\* which is the latest one that has published.
NoFlights ==
    [fn |-> "analyzeFile", flights |-> <<>>,
     started |-> [d \in PhpDocs |-> 0],
     held    |-> [d \in PhpDocs |-> 0],
     latest  |-> [d \in PhpDocs |-> 0]]

InFlight == call.fn = "analyzeFile"

\* A trigger starts analyzeFile(d) of the live service: the guard, the delete
\* of the document's diagnostics, then the call of execSync.
StartAnalysis(d) ==
    /\ InFlight
    /\ ExecSyncBlocks => call.flights = <<>>
    /\ call.started[d] < MaxRuns
    /\ getConfig(settings).enable /\ languageId(d) = "php"
    /\ ~services[1].disposed
    /\ services' = [services EXCEPT ![1].diags[d] = <<>>]
    /\ call' = [call EXCEPT !.started[d] = @ + 1,
                            !.flights = Append(@, [doc |-> d, seq |-> call.started[d] + 1])]
    /\ log' = <<Op(1, "delete", d, TRUE, NoArg)>>
    /\ last' = Event("start", d, 1, HadDiags(services, 1, d))
    /\ UNCHANGED <<settings, env, phpmdService, serviceClass, activeEditor,
                   extListenerPos, burst, extensionVersion>>
    /\ SetStatus(St)

\* execSync of analysis k returns with what the tool wrote and the rest of
\* analyzeFile runs: the output is processed and published.
FinishAnalysis(k) ==
    /\ InFlight
    /\ k \in 1..Len(call.flights)
    /\ \E e2 \in AnalysisEnvs(env), run \in RunsIn(env) :
         \E f \in {call.flights[k]} :
         \E r \in {analyzeFile(1, services[1], f.doc, settings, env, e2, run)} :
            /\ services' = [services EXCEPT ![1] = r.svc]
            /\ log' = r.ops
            /\ call' = [call EXCEPT
                          !.flights = SubSeq(@, 1, k - 1) \o SubSeq(@, k + 1, Len(@)),
                          !.held[f.doc] = f.seq,
                          !.latest[f.doc] = IF f.seq > @ THEN f.seq ELSE @]
            /\ last' = Event("finish", f.doc, 1, HadDiags(services, 1, f.doc))
    /\ UNCHANGED <<settings, env, phpmdService, serviceClass, activeEditor,
                   extListenerPos, burst, extensionVersion>>
    /\ SetStatus(St)

InitFlight ==
    /\ serviceClass \in {"PhpmdService", "BasePhpToolService"}
    /\ settings \in {s \in AllSettings : s.enable}
    /\ env \in Envs
    /\ services = <<NewService(settings)>>
    /\ phpmdService = 1
    /\ extListenerPos = 1
    /\ activeEditor = "none"
    /\ extensionVersion = "extension.ts"
    /\ burst = NoBurst
    /\ log = <<>>
    /\ last = Event("activate", "none", 0, FALSE)
    /\ call = NoFlights
    /\ currentFileHasIssues = FALSE
    /\ ddevServiceStatus = "disabled"
    /\ statusBarItem = TextReady
    /\ statusUpdated = FALSE

NextFlight ==
    \/ \E d \in PhpDocs : StartAnalysis(d)
    \/ \E k \in 1..(2 * MaxRuns) : FinishAnalysis(k)

\* The process execSync waits for ends, so an analysis that was started
\* finishes.
SpecFlight ==
    InitFlight /\ [][NextFlight]_vars
    /\ WF_vars(\E k \in 1..(2 * MaxRuns) : FinishAnalysis(k))

\* The diagnostics held for some document come from an analysis that was
\* started before one that has already published for that document.
Stale == \E d \in PhpDocs : call.held[d] < call.latest[d]

---------------------------------------------------------------------------
(* The text a failed validation carries                                    *)

\* The text of the version attempt that failed and made the call invalid:
\* message || stderr of the error the first `--version` run threw.
FailedAttemptText ==
    IF VersionAttempt(call.e1).message # <<>>
    THEN VersionAttempt(call.e1).message ELSE VersionAttempt(call.e1).stderr

\* C33: a call that returns ddev-not-running, tool-not-found or unknown
\* carries, and has classified, the text of the failed version attempt that
\* made it invalid, whatever the container does while the call runs.
C33_TextOfTheFailedAttempt ==
    (Validated /\ call.out.errorType \in {"ddev-not-running", "tool-not-found", "unknown"}) =>
        /\ ~VersionAttempt(call.e1).ok
        /\ call.out.errorMessage = FailedAttemptText
        /\ call.out.errorType = ClassifyError("phpmd", FailedAttemptText)

---------------------------------------------------------------------------
(* Services that were disposed                                             *)

\* The calls of the last event that service i made, by name.
CallsOf(i, names) == {k \in 1..Len(log) : log[k].svc = i /\ log[k].op \in names}

\* The calls of the last event for document d, by name.
CallsFor(d, names) == {k \in 1..Len(log) : log[k].doc = d /\ log[k].op \in names}

\* C34: however often the tool was enabled and disabled before, a save of a
\* PHP document with the tool enabled in on-save mode runs the tool at most
\* once and publishes at most once for the document, both by the live
\* service; in a save, a change or a timer callback a disposed service
\* validates nothing, runs nothing, sets nothing and succeeds in no call of
\* its collection, and it holds no diagnostics.
C34_DisposedServicesStaySilent ==
    /\ (/\ last.kind = "save" /\ languageId(last.doc) = "php"
        /\ settings.enable /\ settings.validateOn = "save") =>
           /\ Cardinality(CallsFor(last.doc, {"exec"})) <= 1
           /\ Cardinality(CallsFor(last.doc, {"set"})) <= 1
           /\ \A k \in CallsFor(last.doc, {"exec", "set"}) : log[k].svc = phpmdService
    /\ \A i \in 1..Len(services) :
          services[i].disposed =>
             /\ \A d \in Docs : services[i].diags[d] = <<>>
             /\ i # phpmdService
             /\ last.kind \in {"save", "change", "timer"} =>
                   /\ CallsOf(i, {"exec", "set", "validate", "isDdevProject"}) = {}
                   /\ \A k \in CallsOf(i, {"delete", "clear"}) : ~log[k].ok

\* After the tool was disabled and enabled again a save in on-save mode
\* reached the disposed service and the live one: one run, one publish.
C34_Witness ==
    /\ last.kind = "save" /\ settings.enable /\ settings.validateOn = "save"
    /\ Len(services) = 2 /\ services[1].disposed /\ phpmdService = 2
    /\ Cardinality(CallsFor(last.doc, {"exec"})) = 1
    /\ Cardinality(CallsFor(last.doc, {"set"})) = 1
    /\ CallsOf(1, {"delete"}) # {}

---------------------------------------------------------------------------
(* The lifecycle of the service                                            *)

\* The services that have not been disposed.
LiveServices == {i \in 1..Len(services) : ~services[i].disposed}

\* initializeService called once more in the state as it is, without any
\* setting having changed.
InitializedAgain(e2, silent) ==
    InitializeServiceOf(extensionVersion, services, phpmdService, St, settings,
                        env, e2, silent)

\* C35: the services not disposed are the one the extension holds, if it
\* holds one; a service was created only with the tool enabled and right
\* after a validation that passed; while the enable flag is false no service
\* exists; and initializeService called again, with the flag as it is and a
\* service existing, validates nothing, creates nothing and disposes nothing.
C35_AtMostOneLiveService ==
    /\ LiveServices = (IF phpmdService = 0 THEN {} ELSE {phpmdService})
    /\ \A k \in 1..Len(log) :
          log[k].op = "create" =>
             /\ settings.enable
             /\ k > 1 /\ log[k - 1].op = "validate" /\ log[k - 1].arg.isValid
             /\ phpmdService = Len(services)
    /\ ~settings.enable => phpmdService = 0
    /\ phpmdService # 0 =>
          \A e2 \in Envs, silent \in BOOLEAN :
             /\ InitializedAgain(e2, silent).services = services
             /\ InitializedAgain(e2, silent).phpmdService = phpmdService
             /\ InitializedAgain(e2, silent).ok
             /\ \A k \in 1..Len(InitializedAgain(e2, silent).ops) :
                   InitializedAgain(e2, silent).ops[k].op
                      \notin {"validate", "create", "dispose"}

\* The tool was disabled and enabled again: the first service is disposed
\* and the event created the one the extension holds now.
C35_Witness ==
    /\ last.kind = "config" /\ last.doc = "enable"
    /\ HasOp(log, "create")
    /\ Len(services) = 2 /\ services[1].disposed /\ phpmdService = 2

---------------------------------------------------------------------------
(* Events that do not qualify                                              *)

\* The save or change event just handled did not qualify: its document is
\* not PHP, the tool is disabled, or it is a change under on-save mode.
NotQualified(event, stored) ==
    /\ event.kind \in {"save", "change"}
    /\ \/ languageId(event.doc) # "php"
       \/ ~stored.enable
       \/ (event.kind = "change" /\ stored.validateOn = "save")

\* C36: a save or change event that does not qualify leaves every service
\* as it was (its timer, its diagnostics of every document, its snapshot),
\* leaves the settings and the service the extension holds as they were, and
\* makes no call at all: no validation, no run of the tool.
C36_UnqualifiedEventsChangeNothing ==
    [][NotQualified(last', settings) =>
          /\ services' = services
          /\ settings' = settings
          /\ phpmdService' = phpmdService
          /\ log' = <<>>
      ]_vars

\* A change event under on-save mode reached a live service that holds
\* diagnostics for the document; and nothing was called.
C36_Witness ==
    /\ last.kind = "change" /\ languageId(last.doc) = "php"
    /\ settings.enable /\ settings.validateOn = "save"
    /\ phpmdService # 0
    /\ services[phpmdService].diags[last.doc] # <<>>
    /\ log = <<>>

---------------------------------------------------------------------------
(* One analysis of a document while other documents hold diagnostics       *)

\* What every PHP document holds before the analysis.
HeldBefore == <<createDiagnostic(SampleViolation2)>>

PublishCalls ==
    [fn : {"publish"}, doc : PhpDocs, result : Reports, exit : {0, 2},
     minSeverity : MinSeverities, done : {FALSE}]

\* analyzeFile(document) of the service, the tool writing the call's report.
ApplyPublish ==
    /\ call.fn = "publish"
    /\ ~call.done
    /\ \E e2 \in AnalysisEnvs(env) :
       \E r \in {analyzeFile(1, services[1], call.doc, settings, env, e2,
                             [exit |-> call.exit, stdout |-> StdoutJson(call.result)])} :
          /\ services' = <<r.svc>>
          /\ log' = r.ops
    /\ call' = [call EXCEPT !.done = TRUE]
    /\ UNCHANGED <<settings, env, phpmdService, serviceClass, activeEditor,
                   extListenerPos, burst, last, extVars>>

InitPublish ==
    /\ call \in PublishCalls
    /\ serviceClass \in {"PhpmdService", "BasePhpToolService"}
    /\ settings = [DEFAULT_CONFIG EXCEPT !.minSeverity = call.minSeverity]
    /\ env = [marker |-> TRUE, ddev |-> "ready"]
    /\ services = <<[ServiceWith(IF serviceClass = "PhpmdService"
                                 THEN getConfig(settings) ELSE NoSnapshot)
                       EXCEPT !.diags = [d \in Docs |->
                                  IF d \in PhpDocs THEN HeldBefore ELSE <<>>]]>>
    /\ phpmdService = 1
    /\ activeEditor = call.doc
    /\ extListenerPos = 1
    /\ burst = NoBurst
    /\ log = <<>>
    /\ last = Event("call", "none", 0, FALSE)
    /\ extensionVersion = "extension.ts"
    /\ currentFileHasIssues = FALSE
    /\ ddevServiceStatus = "disabled"
    /\ statusBarItem = TextReady
    /\ statusUpdated = FALSE

NextPublish == ApplyPublish

SpecPublish == InitPublish /\ [][NextPublish]_vars

\* The tool ran for the call's document and wrote the call's report.
Published ==
    /\ call.fn = "publish" /\ call.done
    /\ \E j \in 1..Len(log) :
          /\ log[j].op = "exec" /\ log[j].ok /\ log[j].doc = call.doc
          /\ log[j].arg.stdout = StdoutJson(call.result)

\* C37: an analysis of document A changes only A's diagnostic set. Every
\* other document holds what it held, the collection is set for A alone, and
\* when the report is well-formed A holds one diagnostic per violation that
\* passes the filter, from every entry of `files` in order, none of the
\* entries being named after A.
C37_OnlyTheAnalysedDocument ==
    (call.fn = "publish" /\ call.done) =>
        /\ \A d \in Docs \ {call.doc} :
              services[1].diags[d] = IF d \in PhpDocs THEN HeldBefore ELSE <<>>
        /\ \A j \in 1..Len(log) :
              log[j].op \in {"set", "delete"} => log[j].doc = call.doc
        /\ (/\ Published
            /\ \A k \in 1..Len(ViolationsInOrder(call.result.files)) :
                  WellFormed(ViolationsInOrder(call.result.files)[k])) =>
              /\ \A f \in 1..Len(call.result.files) :
                    call.result.files[f].file # call.doc
              /\ Len(services[1].diags[call.doc]) = Len(Kept)
              /\ \A k \in 1..Len(Kept) :
                    /\ services[1].diags[call.doc][k].code.value = Kept[k].rule
                    /\ services[1].diags[call.doc][k].range.start.line
                          = Kept[k].beginLine - 1

\* A report of two files, neither of them a.php, was published for a.php:
\* a.php holds the three diagnostics and b.php still holds its own.
C37_Witness ==
    /\ Published
    /\ call.doc = "a.php"
    /\ Len(call.result.files) = 2
    /\ call.result.files[1].violations = <<SampleViolation2>>
    /\ call.result.files[2].violations = <<SampleViolation1, SampleViolation2>>
    /\ call.minSeverity = "warning"
    /\ Len(services[1].diags["a.php"]) = 3
    /\ services[1].diags["b.php"] = HeldBefore

---------------------------------------------------------------------------
(* 'Analyze Current File' without a service                                *)

\* The command of part_002 was just executed with the tool enabled and no
\* service present.
CommandWithoutService ==
    /\ last.kind = "command"
    /\ extensionVersion = "part_002"
    /\ settings.enable
    /\ last.svc = 0

---------------------------------------------------------------------------
(* The buttons of the warning shown for a failed validation                *)

\* The buttons the failure calls for.
ButtonsFor(errorType) ==
    (IF errorType = "ddev-not-running" THEN <<"Start DDEV">> ELSE <<>>)
    \o <<"Disable for this project">>

\* The calls of the last event in which showDdevError followed the failed
\* validation of call k.
ShownFailures ==
    {k \in 1..(Len(log) - 1) :
        /\ extensionVersion = "part_002"
        /\ log[k].op = "validate" /\ ~log[k].arg.isValid
        /\ log[k + 1].op = "warning"}

\* C39: the warning shown for a failed validation offers 'Start DDEV' and
\* 'Disable for this project' when the validation failed because the
\* container is not running, and 'Disable for this project' alone for every
\* other failure.
C39_ButtonsFollowTheFailure ==
    \A k \in ShownFailures :
        log[k + 1].arg.buttons = ButtonsFor(log[k].arg.errorType)
============================================================================
